---- MODULE Spec2Model ----
(***************************************************************************)
(* Model of the outfit-suggestor backend decision core:                    *)
(*   - AIService._parse_response (the Suggestion Parser),                  *)
(*   - OutfitController.suggest_outfit / _generate_model_image             *)
(*     (the Suggestion Pipeline and the Image Generation Orchestrator),    *)
(*   - OutfitService / WardrobeService duplicate detection.                *)
(*                                                                         *)
(* Six specifications share the variables:                                 *)
(*   SpecParser   : _parse_response applied to bounded upstream outputs    *)
(*   Spec         : the request pipeline of OutfitController               *)
(*   SpecDup      : the services' save / check_duplicate_image operations  *)
(*   SpecMatcher  : match_wardrobe_to_outfit on bounded suggestions        *)
(*   SpecWardrobe : the wardrobe inventory operations of several users     *)
(*   SpecConcurrent : two suggest_outfit requests whose steps interleave    *)
(***************************************************************************)
EXTENDS Integers, Sequences, FiniteSets, TLC

VARIABLES
    \* ---- Suggestion Parser (SpecParser) ----
    pcP,        \* "input" | "parsed"
    content,    \* the upstream output handed to _parse_response
    strictStr,  \* TRUE: pydantic rejects a number for a str field (v2); FALSE: coerces it (v1)
    parsed,     \* the outcome of the last _parse_response call
    parsedPrev, \* the outcome of the call before it
    \* ---- persistence layer and configuration ----
    history,    \* table outfit_history, in insertion order (id = position)
    wardrobe,   \* table wardrobe_items, in insertion order
    clock,      \* datetime.utcnow() of the latest insert
    threshold,  \* Config.IMAGE_SIMILARITY_THRESHOLD
    dupResult,  \* what the last check_duplicate_image call returned (until the next write)
    \* ---- OutfitController.suggest_outfit (Spec) ----
    req,        \* the request being handled: its inputs, its locals and its response
    \* ---- WardrobeMatcher (SpecMatcher) ----
    match,      \* the suggestion and items given to match_wardrobe_to_outfit, its result
    \* ---- wardrobe inventory (SpecWardrobe) ----
    wardrobeResult, \* the last wardrobe operation: its caller, its arguments, its answer
    \* ---- two suggest_outfit requests in flight (SpecConcurrent) ----
    conc        \* their inputs, each handler's locals, the responses, the store they found

parserVars == <<pcP, content, strictStr, parsed, parsedPrev>>
storeVars == <<history, wardrobe, clock, threshold, dupResult>>

vars == <<pcP, content, strictStr, parsed, parsedPrev,
          history, wardrobe, clock, threshold, dupResult, req, match, wardrobeResult, conc>>

(***************************************************************************)
(* Bounds                                                                  *)
(***************************************************************************)
\* longest run of prose tokens before and after the embedded object
MaxProse == 1
\* how many of the six fields of a generated object may deviate from a plain text value
MaxOdd == 1
\* rows in outfit_history and wardrobe_items together (SpecDup)
MaxEntries == 2
\* rows in outfit_history (Spec): the requests that may succeed in one run
MaxHistory == 1
\* wardrobe items given to one match_wardrobe_to_outfit call (SpecMatcher)
MaxItems == 1
\* rows in wardrobe_items at one time (SpecWardrobe)
MaxWardrobe == 2
\* the latest created_at an added row may get (SpecWardrobe)
MaxStamp == 1

(***************************************************************************)
(* Small helpers                                                           *)
(***************************************************************************)
Min(a, b) == IF a < b THEN a ELSE b
Max(a, b) == IF a > b THEN a ELSE b

(***************************************************************************)
(* OutfitSuggestion: the six text slots                                    *)
(***************************************************************************)
SlotSeq == <<"shirt", "trouser", "blazer", "shoes", "belt", "reasoning">>
Slots == {SlotSeq[i] : i \in 1..Len(SlotSeq)}

\* the defaults of outfit_data.get(key, default)
GetDefault ==
    [k \in Slots |->
        CASE k = "shirt" -> "Classic white dress shirt"
          [] k = "trouser" -> "Dark navy dress trousers"
          [] k = "blazer" -> "Charcoal gray blazer"
          [] k = "shoes" -> "Black leather dress shoes"
          [] k = "belt" -> "Black leather belt"
          [] OTHER -> "A classic professional look that works for most business occasions."]

\* mutant: the except branch reuses the .get defaults (the other reasoning text)
FallbackUsesGetDefaults == GetDefault

\* the suggestion returned when json.loads fails
FallbackSuggestion ==
    [k \in Slots |->
        CASE k = "shirt" -> "Classic white dress shirt"
          [] k = "trouser" -> "Dark navy dress trousers"
          [] k = "blazer" -> "Charcoal gray blazer"
          [] k = "shoes" -> "Black leather dress shoes"
          [] k = "belt" -> "Black leather belt"
          [] OTHER -> "A professional outfit suggestion based on your uploaded image."]

NoSlots == [k \in Slots |-> ""]

(***************************************************************************)
(* Upstream text as a sequence of lexical tokens.                          *)
(*   lb "{"   rb "}"   colon   comma   str (a quoted string, v its text)   *)
(*   num (a number, v its digits)   null   word (prose, never JSON)        *)
(***************************************************************************)
Tok(k, v) == [k |-> k, v |-> v]
LB == Tok("lb", "")
RB == Tok("rb", "")
COLON == Tok("colon", "")
COMMA == Tok("comma", "")
WORD == Tok("word", "Here")

\* str.find('{'): 0-based index of the first "{", -1 when there is none
PyFind(s, k) ==
    IF \E i \in 1..Len(s) : s[i].k = k
    THEN (CHOOSE i \in 1..Len(s) : s[i].k = k /\ \A j \in 1..(i-1) : s[j].k # k) - 1
    ELSE -1

\* str.rfind('}'): 0-based index of the last "}", -1 when there is none
PyRFind(s, k) ==
    IF \E i \in 1..Len(s) : s[i].k = k
    THEN (CHOOSE i \in 1..Len(s) : s[i].k = k /\ \A j \in (i+1)..Len(s) : s[j].k # k) - 1
    ELSE -1

\* Python's s[a:b]: a negative index counts from the end, both are clamped
PyIndex(n, len) == IF n < 0 THEN Max(n + len, 0) ELSE Min(n, len)

PySlice(s, a, b) ==
    LET lo == PyIndex(a, Len(s))
        hi == PyIndex(b, Len(s))
    IN IF lo >= hi THEN <<>> ELSE SubSeq(s, lo + 1, hi)

(***************************************************************************)
(* json.loads on the token sequence                                        *)
(***************************************************************************)
JVal(ty, s) == [ty |-> ty, s |-> s]
JNull == JVal("null", "")
EmptyDict == [x \in {} |-> JNull]
JFail == [ok |-> FALSE, val |-> JNull, d |-> EmptyDict, next |-> 0]

RECURSIVE ParseValue(_, _), ParseMembers(_, _, _)

\* one JSON value starting at token i (1-based); next is the first token after it
ParseValue(t, i) ==
    IF i > Len(t) THEN JFail
    ELSE CASE t[i].k = "str" -> [ok |-> TRUE, val |-> JVal("str", t[i].v), d |-> EmptyDict, next |-> i + 1]
           [] t[i].k = "num" -> [ok |-> TRUE, val |-> JVal("num", t[i].v), d |-> EmptyDict, next |-> i + 1]
           [] t[i].k = "null" -> [ok |-> TRUE, val |-> JNull, d |-> EmptyDict, next |-> i + 1]
           [] t[i].k = "lb" ->
                IF i + 1 <= Len(t) /\ t[i + 1].k = "rb"
                THEN [ok |-> TRUE, val |-> JVal("obj", ""), d |-> EmptyDict, next |-> i + 2]
                ELSE ParseMembers(t, i + 1, EmptyDict)
           [] OTHER -> JFail

\* the members of an object, from the key at token i up to the closing "}"
ParseMembers(t, i, acc) ==
    IF i + 2 > Len(t) THEN JFail
    ELSE IF t[i].k # "str" \/ t[i + 1].k # "colon" THEN JFail
    ELSE LET r == ParseValue(t, i + 2)
             acc2 == (t[i].v :> r.val) @@ acc
         IN IF ~r.ok \/ r.next > Len(t) THEN JFail
            ELSE IF t[r.next].k = "comma" THEN ParseMembers(t, r.next + 1, acc2)
            ELSE IF t[r.next].k = "rb"
                 THEN [ok |-> TRUE, val |-> JVal("obj", ""), d |-> acc2, next |-> r.next + 1]
                 ELSE JFail

\* json.loads(json_str): the whole string must be one value
JsonLoads(t) ==
    LET r == ParseValue(t, 1)
    IN IF r.ok /\ r.next = Len(t) + 1 THEN r ELSE JFail

(***************************************************************************)
(* pydantic: OutfitSuggestion(shirt=..., ...), every slot declared str     *)
(***************************************************************************)
\* whether a value is accepted for a str field
StrFieldAccepts(v, strict) ==
    \/ v.ty = "str"
    \/ v.ty = "num" /\ ~strict

\* the slot text an accepted value becomes
StrFieldValue(v) == v.s

(***************************************************************************)
(* AIService._parse_response                                               *)
(***************************************************************************)
ParseOk(slots) == [status |-> "ok", slots |-> slots]
ParseRaise == [status |-> "raise", slots |-> NoSlots]

\* outfit_data.get(key, default)
DictGet(d, k, default) == IF k \in DOMAIN d THEN d[k] ELSE JVal("str", default)

\* mutant: json.loads on the whole content, without the first-"{" .. last-"}" slice
ParseResponseWholeText(c, strict) ==
    IF c.none THEN ParseRaise
    ELSE
      LET r == JsonLoads(c.toks)
      IN IF ~r.ok THEN ParseOk(FallbackSuggestion)
         ELSE IF r.val.ty # "obj" THEN ParseRaise
         ELSE LET got == [k \in Slots |-> DictGet(r.d, k, GetDefault[k])]
              IN IF \A k \in Slots : StrFieldAccepts(got[k], strict)
                 THEN ParseOk([k \in Slots |-> StrFieldValue(got[k])])
                 ELSE ParseRaise

ParseResponse(c, strict) ==
    IF c.none THEN ParseRaise     \* None.find: AttributeError, not caught
    ELSE
      LET start_idx == PyFind(c.toks, "lb")
          end_idx == PyRFind(c.toks, "rb") + 1
          json_str == PySlice(c.toks, start_idx, end_idx)
          r == JsonLoads(json_str)
      IN IF ~r.ok THEN ParseOk(FallbackSuggestion)          \* json.JSONDecodeError
         ELSE IF r.val.ty # "obj" THEN ParseRaise           \* .get on a non-dict
         ELSE LET got == [k \in Slots |-> DictGet(r.d, k, GetDefault[k])]
              IN IF \A k \in Slots : StrFieldAccepts(got[k], strict)
                 THEN ParseOk([k \in Slots |-> StrFieldValue(got[k])])
                 ELSE ParseRaise                            \* pydantic ValidationError, not caught

(***************************************************************************)
(* Upstream outputs handed to the parser: response.choices[0].message      *)
(* .content is prose around an (intended) JSON object, or None.            *)
(***************************************************************************)
\* a plain text value for each slot
TextOf ==
    [k \in Slots |->
        CASE k = "shirt" -> "Light blue oxford shirt"
          [] k = "trouser" -> "Navy chinos"
          [] k = "blazer" -> "Tan linen blazer"
          [] k = "shoes" -> "Brown suede loafers"
          [] k = "belt" -> "Brown woven belt"
          [] OTHER -> "Earth tones balance the blue."]

FieldKinds == {"text", "alt", "absent", "empty", "null", "num", "obj"}

\* the tokens of the value of slot k in a generated object
ValueTokens(k, kind) ==
    CASE kind = "text" -> <<Tok("str", TextOf[k])>>
      [] kind = "alt" -> <<Tok("str", "Charcoal wool")>>
      [] kind = "empty" -> <<Tok("str", "")>>
      [] kind = "null" -> <<Tok("null", "")>>
      [] kind = "num" -> <<Tok("num", "7")>>
      [] kind = "obj" -> <<LB, Tok("str", "color"), COLON, Tok("str", "navy"), RB>>
      [] OTHER -> <<>>

FieldMaps ==
    {fm \in [Slots -> FieldKinds] : Cardinality({k \in Slots : fm[k] # "text"}) <= MaxOdd}

AllText == [k \in Slots |-> "text"]

RECURSIVE MemberTokens(_, _, _)
\* "key": value members of slots i.., comma separated, absent slots left out
MemberTokens(fm, i, first) ==
    IF i > Len(SlotSeq) THEN <<>>
    ELSE LET k == SlotSeq[i]
         IN IF fm[k] = "absent" THEN MemberTokens(fm, i + 1, first)
            ELSE (IF first THEN <<>> ELSE <<COMMA>>)
                 \o <<Tok("str", k), COLON>> \o ValueTokens(k, fm[k])
                 \o MemberTokens(fm, i + 1, FALSE)

ObjectTokens(fm) == <<LB>> \o MemberTokens(fm, 1, TRUE) \o <<RB>>

RemoveAt(s, p) == SubSeq(s, 1, p - 1) \o SubSeq(s, p + 1, Len(s))

\* what stands where the object should be: an object, an object with one token lost, or no object
Bodies ==
    {ObjectTokens(fm) : fm \in FieldMaps}
    \cup {RemoveAt(ObjectTokens(AllText), p) : p \in 1..Len(ObjectTokens(AllText))}
    \cup {<<>>, <<WORD>>, <<LB, RB>>, <<LB, WORD, RB>>}

ProseTokens == {WORD, LB, RB}

RECURSIVE SeqsUpTo(_, _)
SeqsUpTo(S, n) ==
    IF n = 0 THEN {<<>>}
    ELSE LET shorter == SeqsUpTo(S, n - 1)
         IN shorter \cup {Append(q, x) : q \in shorter, x \in S}

Prose == SeqsUpTo(ProseTokens, MaxProse)

Contents ==
    {[none |-> TRUE, toks |-> <<>>]}
    \cup {[none |-> FALSE, toks |-> pre \o b \o post] : pre \in Prose, b \in Bodies, post \in Prose}

NotParsed == [status |-> "none", slots |-> NoSlots]

(***************************************************************************)
(* Images.  A payload is its bytes (id), whether PIL can open it (ok) and  *)
(* its perceptual hash (the set of bits that are 1).  Equal bytes have     *)
(* equal hashes; different bytes may have equal hashes.                    *)
(***************************************************************************)
Img(id, ok, hash) == [id |-> id, ok |-> ok, hash |-> hash]
ImgA == Img("a", TRUE, {})
ImgA1 == Img("a1", TRUE, {})              \* other bytes, the same fingerprint
ImgA2 == Img("a2", TRUE, {1, 2})          \* a re-encoded copy, 2 bits away from ImgA
ImgB == Img("b", TRUE, {1, 2, 3, 4, 5, 6, 7})
ImgX == Img("x", FALSE, {})               \* bytes PIL cannot open
NoImage == Img("none", FALSE, {})         \* image_data IS NULL

Images == {ImgA, ImgA1, ImgA2, ImgB, ImgX}

\* registered users; user id 0 stands for None (anonymous)
Users == {1, 2}
Anonymous == 0

\* mutant: only the bits set in the first hash and not in the second are counted
HammingDistanceOneSided(h1, h2) == Cardinality(h1 \ h2)

\* hash1 - hash2: the number of differing bits
HammingDistance(h1, h2) == Cardinality((h1 \ h2) \cup (h2 \ h1))

\* mutant: the comparison is strict (distance < threshold)
ImagesAreSimilarStrict(image1, image2, thr) ==
    IF image1.ok /\ image2.ok
    THEN HammingDistance(image1.hash, image2.hash) < thr
    ELSE image1 = image2

\* mutant: a failed fingerprint makes the pair unequal (no exact-match fallback)
ImagesAreSimilarNoFallback(image1, image2, thr) ==
    /\ image1.ok
    /\ image2.ok
    /\ HammingDistance(image1.hash, image2.hash) <= thr

\* OutfitService._images_are_similar / WardrobeService._images_are_similar
ImagesAreSimilar(image1, image2, thr) ==
    IF image1.ok /\ image2.ok
    THEN HammingDistance(image1.hash, image2.hash) <= thr
    ELSE image1 = image2                  \* except Exception: exact match

(***************************************************************************)
(* The two tables                                                          *)
(***************************************************************************)
HistoryEntry(id, user_id, created_at, image_data, model_image, slots) ==
    [id |-> id, user_id |-> user_id, created_at |-> created_at,
     image_data |-> image_data, model_image |-> model_image, slots |-> slots]

WardrobeItem(id, user_id, created_at, category, color, image_data) ==
    [id |-> id, user_id |-> user_id, created_at |-> created_at,
     category |-> category, color |-> color, image_data |-> image_data]

\* mutant: the rows of every user are selected
RowsWithImageAnyUser(table, user_id) ==
    {i \in 1..Len(table) : table[i].image_data # NoImage}

\* .filter(user_id == user_id).filter(image_data.isnot(None)): the ids selected
RowsWithImage(table, user_id) ==
    {i \in 1..Len(table) : table[i].user_id = user_id /\ table[i].image_data # NoImage}

\* mutant: ORDER BY created_at ASC
OrderedAscending(table, ids) ==
    {o \in [1..Cardinality(ids) -> ids] :
        /\ \A i, j \in 1..Cardinality(ids) : i # j => o[i] # o[j]
        /\ \A i, j \in 1..Cardinality(ids) :
              i < j => table[o[i]].created_at <= table[o[j]].created_at}

\* .order_by(created_at.desc()).all(): every order of the selected rows the
\* database may return (rows with equal created_at come in any order)
OrderedDescending(table, ids) ==
    {o \in [1..Cardinality(ids) -> ids] :
        /\ \A i, j \in 1..Cardinality(ids) : i # j => o[i] # o[j]
        /\ \A i, j \in 1..Cardinality(ids) :
              i < j => table[o[i]].created_at >= table[o[j]].created_at}

\* for entry in history: if similar: return entry ... return None  (0 = None)
FirstSimilar(table, order, image, thr) ==
    LET hits == {n \in 1..Len(order) : ImagesAreSimilar(image, table[order[n]].image_data, thr)}
    IN IF hits = {} THEN 0
       ELSE order[CHOOSE n \in hits : \A m \in hits : n <= m]

NoDupResult == [op |-> "none", user_id |-> 0, image |-> NoImage, id |-> 0]

\* mutant: the row is stored without the generated model image
SaveOutfitHistoryWithoutModelImage(user_id, image_data, model_image, slots, created_at) ==
    /\ history' = Append(history,
            HistoryEntry(Len(history) + 1, user_id, created_at, image_data, NoImage, slots))
    /\ clock' = created_at

\* OutfitService.save_outfit_history
SaveOutfitHistory(user_id, image_data, model_image, slots, created_at) ==
    /\ history' = Append(history,
            HistoryEntry(Len(history) + 1, user_id, created_at, image_data, model_image, slots))
    /\ clock' = created_at

\* OutfitService.check_duplicate_image
CheckDuplicateImage(user_id, image) ==
    \E order \in OrderedDescending(history, RowsWithImage(history, user_id)) :
        dupResult' = [op |-> "history", user_id |-> user_id, image |-> image,
                      id |-> FirstSimilar(history, order, image, threshold)]

\* mutant: the controller never looks up and always answers "no duplicate"
ControllerCheckDuplicateNoLookup(current_user, image_base64) ==
    dupResult' = [op |-> IF current_user = Anonymous THEN "anonymous" ELSE "history",
                  user_id |-> current_user, image |-> image_base64, id |-> 0]

\* OutfitController.check_duplicate, lines 263-292: anonymous callers get
\* {"is_duplicate": False} without a lookup; is_duplicate is id # 0 and
\* existing_suggestion is the row history[id]
ControllerCheckDuplicate(current_user, image_base64) ==
    IF current_user = Anonymous
    THEN dupResult' = [op |-> "anonymous", user_id |-> Anonymous,
                       image |-> image_base64, id |-> 0]
    ELSE CheckDuplicateImage(current_user, image_base64)

\* the primary key of the next row: one more than the largest id in the table
NextItemId(table) ==
    IF Len(table) = 0 THEN 1
    ELSE 1 + (CHOOSE m \in {table[i].id : i \in 1..Len(table)} :
                  \A i \in 1..Len(table) : table[i].id <= m)

\* mutant: the row is looked up by its id alone
GetWardrobeItemAnyOwner(item_id, user_id) ==
    {i \in 1..Len(wardrobe) : wardrobe[i].id = item_id}

\* WardrobeService.get_wardrobe_item: the rows with this id owned by this user
GetWardrobeItem(item_id, user_id) ==
    {i \in 1..Len(wardrobe) : wardrobe[i].id = item_id /\ wardrobe[i].user_id = user_id}

\* WardrobeService.add_wardrobe_item
AddWardrobeItem(user_id, category, color, image_data, created_at) ==
    /\ wardrobe' = Append(wardrobe,
            WardrobeItem(NextItemId(wardrobe), user_id, created_at, category, color, image_data))
    /\ clock' = created_at

\* WardrobeService.check_duplicate_image (threshold None: Config's)
WardrobeCheckDuplicateImage(user_id, image) ==
    \E order \in OrderedDescending(wardrobe, RowsWithImage(wardrobe, user_id)) :
        dupResult' = [op |-> "wardrobe", user_id |-> user_id, image |-> image,
                      id |-> FirstSimilar(wardrobe, order, image, threshold)]

\* Config.IMAGE_SIMILARITY_THRESHOLD: int(os.getenv(..., 5))
DefaultThreshold == 5
Thresholds == {0, DefaultThreshold}

\* a row is stamped with utcnow(): not before the latest insert
Stamps == {clock, clock + 1}

EmptyStore ==
    /\ history = <<>>
    /\ wardrobe = <<>>
    /\ clock = 0
    /\ dupResult = NoDupResult

(***************************************************************************)
(* Cost Accountant (amounts in millionths of a dollar)                     *)
(***************************************************************************)
\* GPT4O_INPUT_COST_PER_1M = 2.50, in tenths of a millionth per token
Gpt4oInputRateTenths == 25
\* GPT4O_OUTPUT_COST_PER_1M = 10.00, in tenths of a millionth per token
Gpt4oOutputRateTenths == 100
\* GPT4_VISION_IMAGE_COST = 0.01
Gpt4VisionImageCost == 10000
\* DALLE3_STANDARD_COST = 0.04
Dalle3StandardCost == 40000
\* DALLE3_HD_COST = 0.08
Dalle3HdCost == 80000
\* STABLE_DIFFUSION_COST = 0.0023
StableDiffusionCost == 2300
\* NANO_BANANA_COST = 0.001
NanoBananaCost == 1000

\* round(total, 6) of an amount given in tenths of a millionth: the values the
\* float rounding may give (a tie goes to whichever neighbour the float is nearer)
Round6(tenths) ==
    LET q == tenths \div 10
        r == tenths % 10
    IN IF r < 5 THEN {q} ELSE IF r > 5 THEN {q + 1} ELSE {q, q + 1}

\* CostCalculator.calculate_gpt4_cost
CalculateGpt4Cost(input_tokens, output_tokens, has_image) ==
    Round6(input_tokens * Gpt4oInputRateTenths
           + output_tokens * Gpt4oOutputRateTenths
           + (IF has_image THEN Gpt4VisionImageCost * 10 ELSE 0))

\* CostCalculator.calculate_dalle3_cost
CalculateDalle3Cost(size, quality) ==
    IF size = "1024x1024" THEN Dalle3StandardCost
    ELSE IF quality = "hd" THEN Dalle3HdCost
    ELSE Dalle3StandardCost

(***************************************************************************)
(* Image Generation Orchestrator                                           *)
(***************************************************************************)
RecognizedModels == {"dalle3", "stable-diffusion", "nano-banana"}

\* mutant: an unrecognized name selects the first alternative backend
SelectFirstAlternative(image_model) ==
    IF image_model \in RecognizedModels THEN image_model ELSE "stable-diffusion"

\* model = image_model if image_model in [...] else "dalle3"
SelectModel(image_model) ==
    IF image_model \in RecognizedModels THEN image_model ELSE "dalle3"

\* AIService.generate_model_image: the backend a model name dispatches to
Backend(model) ==
    IF model = "stable-diffusion" THEN "stable-diffusion"
    ELSE IF model = "nano-banana" THEN "nano-banana"
    ELSE "dalle3"

\* how one generate_model_image call may end: "ok", "http" (HTTPException) or
\* "raw" (another exception: only _generate_with_dalle3 builds its prompt
\* outside its try block)
CallOutcomes(model) ==
    IF Backend(model) = "dalle3" THEN {"ok", "http", "raw"} ELSE {"ok", "http"}

\* the cost a successful call returns with the image
CallCost(model) ==
    IF Backend(model) = "stable-diffusion" THEN StableDiffusionCost
    ELSE IF Backend(model) = "nano-banana" THEN NanoBananaCost
    ELSE CalculateDalle3Cost("1024x1792", "standard")

\* the image a successful call returns
GeneratedImage(model) ==
    IF Backend(model) = "stable-diffusion" THEN Img("sd-render", TRUE, {3})
    ELSE IF Backend(model) = "nano-banana" THEN Img("nb-render", TRUE, {4})
    ELSE Img("dalle-render", TRUE, {5})

\* mutant: any failure of any model falls back, the Primary included
FallsBackAlways(model, outcome) == outcome # "ok"

\* except HTTPException: if model in ["stable-diffusion", "nano-banana"]
FallsBack(model, outcome) ==
    outcome = "http" /\ model \in {"stable-diffusion", "nano-banana"}

\* what _generate_model_image returns: a pair (result, cost), or None
\* how _analyze_uploaded_clothing may end inside one backend call: "described",
\* "failed" (its request raised or returned no text), or "skipped" (the backend
\* gave up before it, on a missing token or an image it could not decode)
AnalysisOutcomes(model, outcome) ==
    IF Backend(model) = "dalle3" THEN {"described", "failed"}
    ELSE IF outcome = "ok" THEN {"described", "failed"}
    ELSE {"described", "failed", "skipped"}

\* mutant: a failed analysis raises to the backend that asked for it
AnalyzeUploadedClothingRaises(analysis) ==
    [raised |-> analysis = "failed", details |-> analysis = "described"]

\* _analyze_uploaded_clothing: the description, or None after any exception
AnalyzeUploadedClothing(analysis) ==
    [raised |-> FALSE, details |-> analysis = "described"]

\* one step of a request: the text call, a clothing analysis, a backend attempt,
\* the wardrobe matching, the history write, the cost totals
Step(step, backend, ok, details) ==
    [step |-> step, backend |-> backend, ok |-> ok, details |-> details]

\* the steps of one generate_model_image call: the analysis (unless skipped), then
\* the attempt with the prompt it was given (details: the prompt holds analyzer text)
BackendSteps(model, outcome, analysis) ==
    IF analysis = "skipped" THEN <<Step("image", Backend(model), FALSE, FALSE)>>
    ELSE LET clothing_details == AnalyzeUploadedClothing(analysis)
         IN IF clothing_details.raised
            THEN <<Step("analysis", Backend(model), FALSE, FALSE)>>
            ELSE <<Step("analysis", Backend(model), clothing_details.details, FALSE),
                   Step("image", Backend(model), outcome = "ok", clothing_details.details)>>

\* the call ended without an image
CallFailed(model, outcome, analysis) ==
    outcome # "ok" \/ (analysis # "skipped" /\ AnalyzeUploadedClothing(analysis).raised)

RenderPair(image, cost) == [none |-> FALSE, image |-> image, cost |-> cost]
RenderNone == [none |-> TRUE, image |-> NoImage, cost |-> 0]

(***************************************************************************)
(* Request inputs                                                          *)
(***************************************************************************)
\* validate_image(image, max_size_mb=20)
MaxSizeMb == 20
BytesPerMb == 1048576

Upload(ctype_ok, size, img) == [ctype_ok |-> ctype_ok, size |-> size, img |-> img]

Uploads ==
    { Upload(TRUE, 1024, ImgA),
      Upload(TRUE, MaxSizeMb * BytesPerMb, ImgA2),       \* exactly at the maximum
      Upload(TRUE, MaxSizeMb * BytesPerMb + 1, ImgA),    \* one byte over
      Upload(FALSE, 1024, ImgA),                         \* content type not image/*
      Upload(TRUE, 1024, ImgX) }                         \* an image/* file PIL cannot open

NoUpload == Upload(FALSE, 0, NoImage)

\* mutant: a file of exactly the maximum size is rejected too
ValidateImageBelowLimit(up, max_size_mb) ==
    /\ up.ctype_ok
    /\ ~(up.size # 0 /\ up.size >= max_size_mb * BytesPerMb)

\* utils.image_processor.validate_image: TRUE when no HTTPException(400) is raised
ValidateImage(up, max_size_mb) ==
    /\ up.ctype_ok
    /\ ~(up.size # 0 /\ up.size > max_size_mb * BytesPerMb)

\* utils.image_processor.encode_image: the upload re-encoded as JPEG, base64
EncodeImage(img) ==
    Img(CASE img.id = "a" -> "a.jpeg" [] img.id = "a1" -> "a1.jpeg"
          [] img.id = "a2" -> "a2.jpeg" [] img.id = "b" -> "b.jpeg" [] OTHER -> "jpeg",
        TRUE, img.hash)

\* the form field generate_model_image as sent, and str.lower() of it
GenerateFlags == {"TRUE", "on", "false", "maybe"}
Lower(str) == CASE str = "TRUE" -> "true" [] OTHER -> str

\* mutant: anything but "false" requests the image
ShouldGenerateUnlessFalse(flag) == Lower(flag) # "false"

\* generate_model_image.lower() in ('true', '1', 'yes', 'on')
ShouldGenerate(flag) == Lower(flag) \in {"true", "1", "yes", "on"}

\* the form field image_model as sent ("none": not sent)
ImageModels == {"dalle3", "stable-diffusion", "nano-banana", "midjourney", "none"}

\* the text service's answers used in the pipeline
GoodContent == [none |-> FALSE, toks |-> <<WORD>> \o ObjectTokens(AllText)]
ProseContent == [none |-> FALSE, toks |-> <<WORD, WORD>>]
NullFieldContent ==
    [none |-> FALSE, toks |-> ObjectTokens([AllText EXCEPT !["belt"] = "null"])]
NoneContent == [none |-> TRUE, toks |-> <<>>]
PipelineContents == {GoodContent, ProseContent, NullFieldContent, NoneContent}

\* response.usage: None (counted as 0, 0) or the token counts
Usages == {<<0, 0>>, <<1001, 300>>}

(***************************************************************************)
(* The request record                                                      *)
(***************************************************************************)
CoreCategories == {"shirt", "trouser", "blazer", "shoes", "belt"}

\* wardrobe_items as handed to get_outfit_suggestion: None, or the dict of
\* get_wardrobe_items_by_categories (here: how many items each category lists)
NoMapping == [none |-> TRUE, counts |-> [c \in CoreCategories |-> 0]]
Mapping(user_id) ==
    [none |-> FALSE,
     counts |-> [c \in CoreCategories |->
                   Cardinality({i \in 1..Len(wardrobe) :
                       wardrobe[i].user_id = user_id /\ wardrobe[i].category = c})]]

\* AIService._build_prompt: the parts of the prompt that depend on the wardrobe
\* (a dict with its five keys is truthy even when every list is empty)
BuildPrompt(wardrobe_items, wardrobe_only) ==
    IF wardrobe_items.none
    THEN [wardrobe_section |-> FALSE, constraint |-> "none", listed |-> {}]
    ELSE [wardrobe_section |-> TRUE,
          constraint |-> IF wardrobe_only THEN "only" ELSE "prioritize",
          listed |-> {c \in CoreCategories : wardrobe_items.counts[c] > 0}]

\* no concurrent requests in flight
NoConc == [plans |-> <<>>, reqs |-> <<>>, responses |-> <<>>, history0 |-> <<>>]

NoCost == [gpt4_cost |-> 0, model_image_cost |-> 0, total_cost |-> 0]

IdleRequest ==
    [pc |-> "idle", status |-> 0, handler |-> "", wardrobe_item_id |-> 0,
     user |-> Anonymous, upload |-> NoUpload, flag |-> "", image_model |-> "none",
     use_wardrobe_only |-> FALSE,
     image_base64 |-> NoImage, wardrobe_only_mode |-> FALSE,
     text_call |-> "none", slots |-> NoSlots, model |-> "", calls |-> <<>>,
     steps |-> <<>>, wardrobe_items |-> NoMapping, prompt |-> BuildPrompt(NoMapping, FALSE),
     model_image |-> NoImage, matching |-> FALSE, cost |-> NoCost]

\* raise HTTPException(status_code) / the except Exception handler's 500
Failed(r, status) == [r EXCEPT !.pc = "error", !.status = status]

\* any(items for items in wardrobe_items_dict.values())
HasItems(user_id) ==
    \E i \in 1..Len(wardrobe) :
        wardrobe[i].user_id = user_id /\ wardrobe[i].category \in CoreCategories

(***************************************************************************)
(* Wardrobe Matcher: texts are sequences of characters                      *)
(***************************************************************************)
\* str.lower() of one character
LowerChar(c) ==
    CASE c = "A" -> "a"
      [] c = "B" -> "b"
      [] c = "C" -> "c"
      [] c = "D" -> "d"
      [] c = "E" -> "e"
      [] c = "F" -> "f"
      [] c = "G" -> "g"
      [] c = "H" -> "h"
      [] c = "I" -> "i"
      [] c = "J" -> "j"
      [] c = "K" -> "k"
      [] c = "L" -> "l"
      [] c = "M" -> "m"
      [] c = "N" -> "n"
      [] c = "O" -> "o"
      [] c = "P" -> "p"
      [] c = "Q" -> "q"
      [] c = "R" -> "r"
      [] c = "S" -> "s"
      [] c = "T" -> "t"
      [] c = "U" -> "u"
      [] c = "V" -> "v"
      [] c = "W" -> "w"
      [] c = "X" -> "x"
      [] c = "Y" -> "y"
      [] c = "Z" -> "z"
      [] OTHER -> c

\* mutant: the letter case is kept
SameCase(t) == t

\* str.lower()
LowerText(t) == [i \in 1..Len(t) |-> LowerChar(t[i])]

\* characters str.strip() removes and str.split() splits at
IsSpace(c) == c = " "

\* characters the regex class \w does not contain
NonWordChars == {" ", "-", ","}
IsWordChar(c) == c \notin NonWordChars

\* str.strip()
StripText(t) ==
    LET keep == {i \in 1..Len(t) : ~IsSpace(t[i])}
    IN IF keep = {} THEN <<>>
       ELSE SubSeq(t, CHOOSE i \in keep : \A j \in keep : i <= j,
                      CHOOSE i \in keep : \A j \in keep : j <= i)

\* str.split(): the words between runs of whitespace
SplitText(t) ==
    {SubSeq(t, a, b) : <<a, b>> \in
        {ab \in (1..Len(t)) \X (1..Len(t)) :
            /\ ab[1] <= ab[2]
            /\ \A i \in ab[1]..ab[2] : ~IsSpace(t[i])
            /\ (ab[1] = 1 \/ IsSpace(t[ab[1] - 1]))
            /\ (ab[2] = Len(t) \/ IsSpace(t[ab[2] + 1]))}}

\* sub in t
Contains(sub, t) ==
    \E p \in 1..(Len(t) - Len(sub) + 1) : SubSeq(t, p, p + Len(sub) - 1) = sub

\* the regex \b holds between t[p-1] and t[p]
WordBoundary(t, p) ==
    LET before == p > 1 /\ IsWordChar(t[p - 1])
        after == p <= Len(t) /\ IsWordChar(t[p])
    IN before # after

\* re.search(r'\b' + re.escape(phrase) + r'\b', t)
ReSearchWord(phrase, t) ==
    \E p \in 1..(Len(t) - Len(phrase) + 1) :
        /\ SubSeq(t, p, p + Len(phrase) - 1) = phrase
        /\ WordBoundary(t, p)
        /\ WordBoundary(t, p + Len(phrase))

\* the colors list of _extract_colors
ColorKeywords ==
    {<<"b", "l", "a", "c", "k">>,
     <<"w", "h", "i", "t", "e">>,
     <<"g", "r", "a", "y">>,
     <<"g", "r", "e", "y">>,
     <<"n", "a", "v", "y">>,
     <<"b", "l", "u", "e">>,
     <<"r", "e", "d">>,
     <<"g", "r", "e", "e", "n">>,
     <<"y", "e", "l", "l", "o", "w">>,
     <<"o", "r", "a", "n", "g", "e">>,
     <<"p", "u", "r", "p", "l", "e">>,
     <<"p", "i", "n", "k">>,
     <<"b", "r", "o", "w", "n">>,
     <<"b", "e", "i", "g", "e">>,
     <<"t", "a", "n">>,
     <<"b", "u", "r", "g", "u", "n", "d", "y">>,
     <<"m", "a", "r", "o", "o", "n">>,
     <<"c", "h", "a", "r", "c", "o", "a", "l">>,
     <<"o", "l", "i", "v", "e">>,
     <<"k", "h", "a", "k", "i">>,
     <<"c", "r", "e", "a", "m">>,
     <<"i", "v", "o", "r", "y">>}

\* WardrobeMatcher._extract_colors
ExtractColors(text) == {c \in ColorKeywords : Contains(c, LowerText(text))}

\* item.color: None or a text
NoColor == [none |-> TRUE, text |-> <<>>]
Color(text) == [none |-> FALSE, text |-> text]

\* (item.color or "")
OrEmpty(v) == IF v.none THEN <<>> ELSE v.text

\* item.category.lower() for the categories as stored
LowerCategory(category) ==
    CASE category = "Shirt" -> "shirt"
      [] category = "JACKET" -> "jacket"
      [] OTHER -> category

\* mutant: only an empty color counts as no color
HasNoColorEmptyOnly(item_color) == item_color = <<>>

\* not item_color or item_color == "unknown"
HasNoColor(item_color) == item_color = <<>> \/ item_color = <<"u", "n", "k", "n", "o", "w", "n">>

\* WardrobeMatcher._matches_suggestion
MatchesSuggestion(item, suggested_text) ==
    LET item_color == StripText(LowerText(OrEmpty(item.color)))
        suggested_lower == LowerText(suggested_text)
        suggestion_colors == ExtractColors(suggested_lower)
        item_color_words == SplitText(item_color)
        by_word ==
            \E color_word \in item_color_words :
                /\ Len(color_word) >= 3
                /\ \E suggestion_color \in suggestion_colors :
                      \/ Contains(color_word, suggestion_color)
                      \/ Contains(suggestion_color, color_word)
        by_phrase ==
            /\ Contains(item_color, suggested_lower)
            /\ ReSearchWord(item_color, suggested_lower)
    IN IF suggested_text = <<>> THEN FALSE
       ELSE IF HasNoColor(item_color) THEN FALSE
       ELSE by_word \/ by_phrase

\* the keys of the matches dict
MatchKeys == {"shirt", "trouser", "blazer", "shoes", "belt"}

\* the branch of the if/elif chain an item category takes ("": none)
SlotOfCategory(item_category) ==
    CASE item_category = "shirt" -> "shirt"
      [] item_category = "trouser" -> "trouser"
      [] item_category \in {"blazer", "jacket"} -> "blazer"
      [] item_category = "shoes" -> "shoes"
      [] item_category = "belt" -> "belt"
      [] OTHER -> ""

\* outfit_suggestion.<slot>.lower() if outfit_suggestion.<slot> else ""
SuggestedLower(text) == IF text = <<>> THEN <<>> ELSE LowerText(text)

\* mutant: every item is compared with the suggested shirt
MatchWardrobeToOutfitShirtText(outfit_suggestion, wardrobe_items) ==
    [k \in MatchKeys |->
        {i \in 1..Len(wardrobe_items) :
            /\ SlotOfCategory(LowerCategory(wardrobe_items[i].category)) = k
            /\ MatchesSuggestion(wardrobe_items[i], SuggestedLower(outfit_suggestion["shirt"]))}]

\* WardrobeMatcher.match_wardrobe_to_outfit: per key, the positions of the
\* wardrobe items appended to its list
MatchWardrobeToOutfit(outfit_suggestion, wardrobe_items) ==
    [k \in MatchKeys |->
        {i \in 1..Len(wardrobe_items) :
            /\ SlotOfCategory(LowerCategory(wardrobe_items[i].category)) = k
            /\ MatchesSuggestion(wardrobe_items[i], SuggestedLower(outfit_suggestion[k]))}]

\* the wardrobe items and suggestion texts the matcher is applied to
MatcherColors ==
    {NoColor,
     Color(<<"T", "a", "n">>),
     Color(<<"T", "A", "N">>),
     Color(<<"N", "a", "v", "y", " ", "B", "l", "u", "e">>),
     Color(<<"N", "A", "V", "Y", " ", "B", "L", "U", "E">>),
     Color(<<"n", "a", "v", "y", " ", "b", "l", "u", "e">>),
     Color(<<>>),
     Color(<<" ", " ">>),
     Color(<<"u", "n", "k", "n", "o", "w", "n">>),
     Color(<<"U", "n", "k", "n", "o", "w", "n">>),
     Color(<<" ", "U", "N", "K", "N", "O", "W", "N", " ">>),
     Color(<<"R", "e", "d">>)}

MatcherCategories == {"shirt", "Shirt", "trouser", "blazer", "JACKET", "shoes", "belt", "tie"}

MatcherItem(category, color) == [category |-> category, color |-> color]

MatcherItems == {MatcherItem(c, col) : c \in MatcherCategories, col \in MatcherColors}

MatcherTexts ==
    {<<"T", "a", "n", "g", "e", "r", "i", "n", "e", " ", "p", "o", "l", "o">>,
     <<"t", "a", "n", " ", "c", "h", "i", "n", "o", "s">>,
     <<"S", "u", "n", "t", "a", "n">>,
     <<"N", "a", "v", "y", " ", "b", "l", "a", "z", "e", "r">>,
     <<"N", "A", "V", "Y", " ", "B", "L", "U", "E", " ", "s", "h", "i", "r", "t">>,
     <<"a", " ", "n", "a", "v", "y", " ", "b", "l", "u", "e", " ", "o", "n", "e">>,
     <<"U", "n", "k", "n", "o", "w", "n", " ", "l", "a", "b", "e", "l", " ", "t", "e", "e">>,
     <<"T", "a", "i", "l", "o", "r", "e", "d", " ", "s", "h", "i", "r", "t">>,
     <<"W", "h", "i", "t", "e", " ", "s", "h", "i", "r", "t">>,
     <<>>}

NoMatches == [k \in MatchKeys |-> {}]

MatchIdle == [pc |-> "idle", suggestion |-> [k \in MatchKeys |-> <<>>],
              items |-> <<>>, result |-> NoMatches]

(***************************************************************************)
(* Wardrobe Inventory: WardrobeService and WardrobeController               *)
(***************************************************************************)
\* an optional argument that was not sent (None)
NoArg == "(none)"

\* the characters of the categories and colors the rows of the model hold
Chars(str) ==
    CASE str = "shirt" -> <<"s", "h", "i", "r", "t">>
      [] str = "trouser" -> <<"t", "r", "o", "u", "s", "e", "r">>
      [] str = "jacket" -> <<"j", "a", "c", "k", "e", "t">>
      [] str = "Tan" -> <<"T", "a", "n">>
      [] str = "Navy Blue" -> <<"N", "a", "v", "y", " ", "B", "l", "u", "e">>
      [] OTHER -> <<>>

\* category_keywords of get_user_wardrobe
CategoryKeywords ==
    {<<"s", "h", "i", "r", "t">>,
     <<"t", "r", "o", "u", "s", "e", "r">>,
     <<"t", "r", "o", "u", "s", "e", "r", "s">>,
     <<"p", "a", "n", "t", "s">>,
     <<"b", "l", "a", "z", "e", "r">>,
     <<"j", "a", "c", "k", "e", "t">>,
     <<"s", "h", "o", "e", "s">>,
     <<"b", "e", "l", "t">>,
     <<"t", "i", "e">>,
     <<"s", "u", "i", "t">>,
     <<"s", "w", "e", "a", "t", "e", "r">>,
     <<"p", "o", "l", "o">>,
     <<"t", "-", "s", "h", "i", "r", "t">>,
     <<"j", "e", "a", "n", "s">>,
     <<"s", "h", "o", "r", "t", "s">>,
     <<"o", "t", "h", "e", "r">>}

\* color_keywords of get_user_wardrobe
SearchColorKeywords ==
    {<<"r", "e", "d">>,
     <<"b", "l", "u", "e">>,
     <<"g", "r", "e", "e", "n">>,
     <<"y", "e", "l", "l", "o", "w">>,
     <<"b", "l", "a", "c", "k">>,
     <<"w", "h", "i", "t", "e">>,
     <<"g", "r", "a", "y">>,
     <<"g", "r", "e", "y">>,
     <<"b", "r", "o", "w", "n">>,
     <<"o", "r", "a", "n", "g", "e">>,
     <<"p", "u", "r", "p", "l", "e">>,
     <<"p", "i", "n", "k">>,
     <<"n", "a", "v", "y">>,
     <<"b", "e", "i", "g", "e">>,
     <<"t", "a", "n">>,
     <<"m", "a", "r", "o", "o", "n">>,
     <<"b", "u", "r", "g", "u", "n", "d", "y">>,
     <<"o", "l", "i", "v", "e">>,
     <<"k", "h", "a", "k", "i">>,
     <<"c", "r", "e", "a", "m">>,
     <<"i", "v", "o", "r", "y">>,
     <<"s", "i", "l", "v", "e", "r">>,
     <<"g", "o", "l", "d">>}

\* any(cat == word or word in cat for cat in category_keywords)
IsCategoryKeyword(word) == \E cat \in CategoryKeywords : Contains(word, cat)

\* any(col == word or word in col for col in color_keywords)
IsColorKeyword(word) == \E col \in SearchColorKeywords : Contains(word, col)

\* column.ilike("%" + word + "%"), word being lower-case already
Ilike(word, str) == Contains(word, LowerText(Chars(str)))

\* or_(*word_or_conditions) for one search word (rows hold no name and no
\* description; color is never NULL in a row the service added)
WordCondition(word, row) ==
    IF IsCategoryKeyword(word) THEN Ilike(word, row.category)
    ELSE IF IsColorKeyword(word) THEN Ilike(word, row.color)
    ELSE Ilike(word, row.color) \/ Ilike(word, row.category)

\* the search argument: None, or its text
NoSearch == [none |-> TRUE, text |-> <<>>]
Search(text) == [none |-> FALSE, text |-> text]

\* db.query(WardrobeItem).filter(WardrobeItem.user_id == user_id)
UserRows(user_id) == {i \in 1..Len(wardrobe) : wardrobe[i].user_id = user_id}

\* get_user_wardrobe up to total_count: the owner filter, then the category
\* filter and the search words (all of them must match)
SelectedRows(user_id, category, search) ==
    LET search_words == SplitText(LowerText(search.text))
    IN {i \in UserRows(user_id) :
          /\ (category \notin {NoArg, ""} => wardrobe[i].category = LowerCategory(category))
          /\ \A word \in search_words : WordCondition(word, wardrobe[i])}

\* limit / offset: -1 stands for None
NoPage == -1
Paginate(rows, limit, offset) ==
    LET from == IF offset = NoPage THEN 1 ELSE offset + 1
        rest == SubSeq(rows, from, Len(rows))
    IN IF limit = NoPage \/ limit >= Len(rest) THEN rest ELSE SubSeq(rest, 1, limit)

\* WardrobeService.get_user_wardrobe: every (items, total_count) the query may
\* return (rows with equal created_at come in any order)
GetUserWardrobe(user_id, category, search, limit, offset) ==
    LET ids == SelectedRows(user_id, category, search)
    IN {[items |-> Paginate([n \in 1..Cardinality(ids) |-> wardrobe[order[n]]], limit, offset),
         total_count |-> Cardinality(ids)] : order \in OrderedDescending(wardrobe, ids)}

\* the categories and colors a row of the model may hold
StoredCategories == {"shirt", "trouser", "jacket"}
StoredColors == {"Tan", "Navy Blue"}

\* WardrobeService.get_wardrobe_summary (a key that is absent counts 0)
GetWardrobeSummary(user_id) ==
    [total_items |-> Cardinality(UserRows(user_id)),
     by_category |-> [c \in StoredCategories |->
                        Cardinality({i \in UserRows(user_id) : wardrobe[i].category = c})],
     by_color |-> [c \in StoredColors |->
                     Cardinality({i \in UserRows(user_id) : wardrobe[i].color = c})]]

\* WardrobeService.get_wardrobe_items_by_categories for the categories
\* suggest_outfit asks for: every dict the five queries may return
GetWardrobeItemsByCategories(user_id) ==
    LET Query(c) == GetUserWardrobe(user_id, c, NoSearch, NoPage, NoPage)
    IN {[shirt |-> a.items, trouser |-> b.items, blazer |-> c.items,
         shoes |-> d.items, belt |-> e.items] :
            a \in Query("shirt"), b \in Query("trouser"), c \in Query("blazer"),
            d \in Query("shoes"), e \in Query("belt")}

\* setattr(item, field, value) for the fields sent (value is not None)
UpdatedItem(item, category, color) ==
    [item EXCEPT !.category = IF category = NoArg THEN @ ELSE LowerCategory(category),
                 !.color = IF color = NoArg THEN @ ELSE color]

\* db.delete(item)
WithoutRow(table, i) == SubSeq(table, 1, i - 1) \o SubSeq(table, i + 1, Len(table))

NoSummary ==
    [total_items |-> 0, by_category |-> [c \in StoredCategories |-> 0],
     by_color |-> [c \in StoredColors |-> 0]]

WardrobeResult(op, user_id, item_id, status) ==
    [op |-> op, user_id |-> user_id, item_id |-> item_id, status |-> status,
     items |-> <<>>, total_count |-> 0, summary |-> NoSummary,
     by_categories |-> [c \in CoreCategories |-> <<>>]]

NoWardrobeResult == WardrobeResult("none", 0, 0, 0)

(***************************************************************************)
(* SpecParser: _parse_response applied to every bounded upstream output    *)
(***************************************************************************)
InitParser ==
    /\ pcP = "input"
    /\ content \in Contents
    /\ strictStr \in BOOLEAN
    /\ parsed = NotParsed
    /\ parsedPrev = NotParsed
    /\ EmptyStore
    /\ threshold = DefaultThreshold
    /\ req = IdleRequest
    /\ match = MatchIdle
    /\ wardrobeResult = NoWardrobeResult
    /\ conc = NoConc

\* suggestion = self._parse_response(content)
Parse ==
    /\ pcP = "input"
    /\ pcP' = "parsed"
    /\ parsedPrev' = parsed
    /\ parsed' = ParseResponse(content, strictStr)
    /\ UNCHANGED <<content, strictStr>>
    /\ UNCHANGED <<storeVars, req, match, wardrobeResult, conc>>

\* the same content parsed a second time
ParseAgain ==
    /\ pcP = "parsed"
    /\ pcP' = "reparsed"
    /\ parsedPrev' = parsed
    /\ parsed' = ParseResponse(content, strictStr)
    /\ UNCHANGED <<content, strictStr>>
    /\ UNCHANGED <<storeVars, req, match, wardrobeResult, conc>>

NextParser == Parse \/ ParseAgain

SpecParser == InitParser /\ [][NextParser]_vars

(***************************************************************************)
(* SpecDup: the services' operations on the two tables, called with every  *)
(* bounded argument                                                        *)
(***************************************************************************)
ParserIdle ==
    /\ pcP = "idle"
    /\ content = [none |-> TRUE, toks |-> <<>>]
    /\ strictStr = TRUE
    /\ parsed = NotParsed
    /\ parsedPrev = NotParsed

InitDup ==
    /\ ParserIdle
    /\ EmptyStore
    /\ threshold \in Thresholds
    /\ req = IdleRequest
    /\ match = MatchIdle
    /\ wardrobeResult = NoWardrobeResult
    /\ conc = NoConc

DupSaveOutfitHistory ==
    /\ Len(history) + Len(wardrobe) < MaxEntries
    /\ \E u \in Users \cup {Anonymous}, img \in Images \cup {NoImage}, t \in Stamps :
          SaveOutfitHistory(u, img, NoImage, TextOf, t)
    /\ dupResult' = NoDupResult       \* the earlier call's answer has been delivered
    /\ UNCHANGED <<wardrobe, threshold>>
    /\ UNCHANGED <<parserVars, req, match, wardrobeResult, conc>>

DupAddWardrobeItem ==
    /\ Len(history) + Len(wardrobe) < MaxEntries
    /\ \E u \in Users, img \in Images \cup {NoImage}, t \in Stamps :
          AddWardrobeItem(u, "shirt", "Navy Blue", img, t)
    /\ dupResult' = NoDupResult
    /\ UNCHANGED <<history, threshold>>
    /\ UNCHANGED <<parserVars, req, match, wardrobeResult, conc>>

DupCheckHistory ==
    /\ \E u \in Users \cup {Anonymous}, img \in Images : ControllerCheckDuplicate(u, img)
    /\ UNCHANGED <<history, wardrobe, clock, threshold>>
    /\ UNCHANGED <<parserVars, req, match, wardrobeResult, conc>>

DupCheckWardrobe ==
    /\ \E u \in Users, img \in Images : WardrobeCheckDuplicateImage(u, img)
    /\ UNCHANGED <<history, wardrobe, clock, threshold>>
    /\ UNCHANGED <<parserVars, req, match, wardrobeResult, conc>>

NextDup == DupSaveOutfitHistory \/ DupAddWardrobeItem \/ DupCheckHistory \/ DupCheckWardrobe

SpecDup == InitDup /\ [][NextDup]_vars

(***************************************************************************)
(* SpecMatcher: match_wardrobe_to_outfit applied to every bounded          *)
(* suggestion and wardrobe                                                 *)
(***************************************************************************)
\* a suggestion: one text for shirt, blazer and belt, another for trouser and shoes
MatcherSuggestion(text) ==
    [k \in MatchKeys |->
        IF k \in {"shirt", "blazer", "belt"} THEN text
        ELSE <<"t", "a", "n", " ", "c", "h", "i", "n", "o", "s">>]

InitMatcher ==
    /\ ParserIdle
    /\ EmptyStore
    /\ threshold = DefaultThreshold
    /\ req = IdleRequest
    /\ \E text \in MatcherTexts, items \in SeqsUpTo(MatcherItems, MaxItems) :
          match = [pc |-> "input", suggestion |-> MatcherSuggestion(text),
                   items |-> items, result |-> NoMatches]
    /\ wardrobeResult = NoWardrobeResult
    /\ conc = NoConc

\* matching_items = self.wardrobe_matcher.match_wardrobe_to_outfit(suggestion, items)
Match ==
    /\ match.pc = "input"
    /\ match' = [match EXCEPT !.pc = "matched",
                              !.result = MatchWardrobeToOutfit(match.suggestion, match.items)]
    /\ UNCHANGED <<parserVars, storeVars, req, wardrobeResult, conc>>

NextMatcher == Match

SpecMatcher == InitMatcher /\ [][NextMatcher]_vars

(***************************************************************************)
(* SpecWardrobe: the wardrobe operations, called by several users with     *)
(* every bounded argument                                                  *)
(***************************************************************************)
\* item_id as sent: the ids a table of MaxWardrobe rows may hold, and one more
SentItemIds == 1..(MaxWardrobe + 1)

InitWardrobe ==
    /\ ParserIdle
    /\ EmptyStore
    /\ threshold = DefaultThreshold
    /\ req = IdleRequest
    /\ match = MatchIdle
    /\ wardrobeResult = NoWardrobeResult
    /\ conc = NoConc

\* WardrobeController.add_wardrobe_item without an image; the service stores
\* category.lower()
WardrobeAdd ==
    /\ Len(wardrobe) < MaxWardrobe
    /\ \E u \in Users, category \in {"Shirt", "trouser"}, color \in StoredColors, t \in Stamps :
          /\ t <= MaxStamp
          /\ AddWardrobeItem(u, LowerCategory(category), color, NoImage, t)
          /\ wardrobeResult' =
                [WardrobeResult("add", u, NextItemId(wardrobe), 201) EXCEPT
                    !.items = <<WardrobeItem(NextItemId(wardrobe), u, t,
                                             LowerCategory(category), color, NoImage)>>]
    /\ UNCHANGED <<parserVars, history, threshold, dupResult, req, match, conc>>

\* WardrobeController.get_wardrobe_item: the item, or HTTPException(404)
WardrobeGet ==
    /\ \E u \in Users, item_id \in SentItemIds :
          LET found == GetWardrobeItem(item_id, u)
          IN wardrobeResult' =
                IF found = {} THEN WardrobeResult("get", u, item_id, 404)
                ELSE [WardrobeResult("get", u, item_id, 200) EXCEPT
                         !.items = <<wardrobe[CHOOSE i \in found : TRUE]>>]
    /\ UNCHANGED <<parserVars, storeVars, req, match, conc>>

\* the (category, color) of an update request: a new color, or a new category
UpdateFields == {<<NoArg, "Navy Blue">>, <<"JACKET", NoArg>>}

\* WardrobeController.update_wardrobe_item / WardrobeService.update_wardrobe_item
WardrobeUpdate ==
    /\ \E u \in Users, item_id \in SentItemIds, fields \in UpdateFields :
          LET category == fields[1]
              color == fields[2]
              found == GetWardrobeItem(item_id, u)
          IN IF found = {}
             THEN /\ wardrobeResult' = WardrobeResult("update", u, item_id, 404)
                  /\ wardrobe' = wardrobe
             ELSE LET i == CHOOSE i \in found : TRUE
                      item == UpdatedItem(wardrobe[i], category, color)
                  IN /\ wardrobe' = [wardrobe EXCEPT ![i] = item]
                     /\ wardrobeResult' = [WardrobeResult("update", u, item_id, 200) EXCEPT
                                              !.items = <<item>>]
    /\ UNCHANGED <<parserVars, history, clock, threshold, dupResult, req, match, conc>>

\* WardrobeController.delete_wardrobe_item / WardrobeService.delete_wardrobe_item
WardrobeDelete ==
    /\ \E u \in Users, item_id \in SentItemIds :
          LET found == GetWardrobeItem(item_id, u)
          IN IF found = {}
             THEN /\ wardrobeResult' = WardrobeResult("delete", u, item_id, 404)
                  /\ wardrobe' = wardrobe
             ELSE /\ wardrobe' = WithoutRow(wardrobe, CHOOSE i \in found : TRUE)
                  /\ wardrobeResult' = WardrobeResult("delete", u, item_id, 200)
    /\ UNCHANGED <<parserVars, history, clock, threshold, dupResult, req, match, conc>>

\* the (limit, offset) of a list request: everything, or the second row alone
Pages == {<<NoPage, NoPage>>, <<1, 1>>}

\* WardrobeService.get_user_wardrobe
WardrobeList ==
    /\ \E u \in Users, category \in {NoArg, "Shirt"},
          search \in {NoSearch, Search(<<"T", "a", "n", " ", "s", "h", "i", "r", "t">>)},
          page \in Pages :
          \E r \in GetUserWardrobe(u, category, search, page[1], page[2]) :
             wardrobeResult' = [WardrobeResult("list", u, 0, 200) EXCEPT
                                   !.items = r.items, !.total_count = r.total_count]
    /\ UNCHANGED <<parserVars, storeVars, req, match, conc>>

\* WardrobeController.get_wardrobe_summary
WardrobeSummary ==
    /\ \E u \in Users :
          wardrobeResult' = [WardrobeResult("summary", u, 0, 200) EXCEPT
                                !.summary = GetWardrobeSummary(u)]
    /\ UNCHANGED <<parserVars, storeVars, req, match, conc>>

\* WardrobeService.get_wardrobe_items_by_categories, as suggest_outfit calls it
WardrobeByCategories ==
    /\ \E u \in Users :
          \E f \in GetWardrobeItemsByCategories(u) :
             wardrobeResult' = [WardrobeResult("by_categories", u, 0, 200) EXCEPT
                                   !.by_categories = f]
    /\ UNCHANGED <<parserVars, storeVars, req, match, conc>>

NextWardrobe ==
    \/ WardrobeAdd \/ WardrobeGet \/ WardrobeUpdate \/ WardrobeDelete
    \/ WardrobeList \/ WardrobeSummary \/ WardrobeByCategories

SpecWardrobe == InitWardrobe /\ [][NextWardrobe]_vars

(***************************************************************************)
(* Spec: OutfitController.suggest_outfit, one request after another        *)
(***************************************************************************)
\* nothing; two items of user 1 (a navy shirt without a photo, tan trousers with
\* one); or one jacket of user 2, a category outside the five core ones
InitialWardrobes ==
    {<<>>,
     <<WardrobeItem(1, 1, 0, "shirt", "Navy Blue", NoImage),
       WardrobeItem(2, 1, 0, "trouser", "Tan", ImgB)>>,
     <<WardrobeItem(1, 2, 0, "jacket", "Tan", ImgB)>>}

\* wardrobe_item_id as sent (3: no such row)
WardrobeItemIds == {1, 2, 3}

\* all_wardrobe_items of get_user_wardrobe(category=None) is not empty
HasAnyItem(user_id) == \E i \in 1..Len(wardrobe) : wardrobe[i].user_id = user_id

\* the six texts of a suggestion stored before the run
EarlierSlots == [k \in Slots |-> "an earlier suggestion"]

\* nothing, or one row of user 1 saved earlier for the same photo as ImgA
InitialHistories ==
    {<<>>, <<HistoryEntry(1, 1, 0, EncodeImage(ImgA), NoImage, EarlierSlots)>>}

\* the rows of outfit_history the requests of this run have written
SavedByRequests ==
    Cardinality({i \in 1..Len(history) : history[i].slots # EarlierSlots})

Init ==
    /\ ParserIdle
    /\ history \in InitialHistories
    /\ wardrobe \in InitialWardrobes
    /\ clock = 0
    /\ dupResult = NoDupResult
    /\ threshold = DefaultThreshold
    /\ req = IdleRequest
    /\ match = MatchIdle
    /\ wardrobeResult = NoWardrobeResult
    /\ conc = NoConc

\* suggest_outfit, lines 60-89, for one caller and one form: validate_image,
\* encode_image, the wardrobe mode
Started(u, up, flag, im, wo) ==
    LET r0 == [IdleRequest EXCEPT !.handler = "suggest_outfit",
                                  !.user = u, !.upload = up, !.flag = flag,
                                  !.image_model = im, !.use_wardrobe_only = wo]
    IN IF ~ValidateImage(up, MaxSizeMb) THEN Failed(r0, 400)
       ELSE IF ~up.img.ok THEN Failed(r0, 500)      \* Image.open raises
       ELSE IF wo /\ u = Anonymous THEN Failed(r0, 401)
       ELSE [r0 EXCEPT !.pc = "text",
                       !.image_base64 = EncodeImage(up.img),
                       !.wardrobe_items = IF wo /\ HasItems(u) THEN Mapping(u) ELSE NoMapping,
                       !.wardrobe_only_mode = (wo /\ HasItems(u))]

\* lines 60-89: validate_image, encode_image, the wardrobe mode
StartRequest ==
    /\ req.pc = "idle"
    /\ SavedByRequests < MaxHistory
    /\ \E u \in Users \cup {Anonymous}, up \in Uploads, flag \in GenerateFlags,
          im \in ImageModels, wo \in BOOLEAN :
          req' = Started(u, up, flag, im, wo)
    /\ UNCHANGED <<parserVars, storeVars, match, wardrobeResult, conc>>

\* suggest_outfit_from_wardrobe_item, lines 437-487: authentication, the item, its image
StartFromWardrobeItem ==
    /\ req.pc = "idle"
    /\ SavedByRequests < MaxHistory
    /\ \E u \in Users \cup {Anonymous}, item_id \in WardrobeItemIds, flag \in GenerateFlags,
          im \in ImageModels, wo \in BOOLEAN :
          LET r0 == [IdleRequest EXCEPT !.handler = "suggest_outfit_from_wardrobe_item",
                                        !.wardrobe_item_id = item_id,
                                        !.user = u, !.flag = flag,
                                        !.image_model = im, !.use_wardrobe_only = wo]
              found == GetWardrobeItem(item_id, u)
          IN req' =
               IF u = Anonymous THEN Failed(r0, 401)
               ELSE IF found = {} THEN Failed(r0, 404)
               ELSE LET wardrobe_item == wardrobe[CHOOSE i \in found : TRUE]
                    IN IF wardrobe_item.image_data = NoImage THEN Failed(r0, 400)
                       ELSE [r0 EXCEPT !.pc = "text",
                                       !.image_base64 = wardrobe_item.image_data,
                                       !.wardrobe_items = IF wo /\ HasAnyItem(u) THEN Mapping(u) ELSE NoMapping,
                                       !.wardrobe_only_mode = (wo /\ HasAnyItem(u))]
    /\ UNCHANGED <<parserVars, storeVars, match, wardrobeResult, conc>>

\* lines 91-99: the OpenAI call of get_outfit_suggestion raises
TextRaised(r) ==
    Failed([r EXCEPT !.text_call = "raised",
                     !.prompt = BuildPrompt(r.wardrobe_items, r.wardrobe_only_mode),
                     !.steps = <<Step("text", "", FALSE, FALSE)>>], 500)

\* lines 91-104: the OpenAI call answers `c` at the cost gpt4_cost; _parse_response,
\* then the generate flag
TextReturned(r, c, gpt4_cost) ==
    LET p == ParseResponse(c, strictStr)
        cost_info == [gpt4_cost |-> gpt4_cost, model_image_cost |-> 0,
                      total_cost |-> gpt4_cost]
        r1 == [r EXCEPT !.text_call = "returned",
                        !.prompt = BuildPrompt(r.wardrobe_items, r.wardrobe_only_mode),
                        !.steps = <<Step("text", "", p.status = "ok", FALSE)>>]
    IN IF p.status # "ok" THEN Failed(r1, 500)     \* _parse_response raises
       ELSE IF ShouldGenerate(r.flag)
            THEN [r1 EXCEPT !.pc = "render", !.slots = p.slots,
                            !.cost = cost_info,
                            !.model = SelectModel(r.image_model)]
            ELSE [r1 EXCEPT !.pc = "finish", !.slots = p.slots,
                            !.cost = cost_info]

\* lines 91-104 (489-497): ai_service.get_outfit_suggestion, then the generate flag
TextCall ==
    /\ req.pc = "text"
    /\ \/ req' = TextRaised(req)
       \/ \E c \in PipelineContents, usage \in Usages :
             \E gpt4_cost \in CalculateGpt4Cost(usage[1], usage[2], TRUE) :
                req' = TextReturned(req, c, gpt4_cost)
    /\ UNCHANGED <<parserVars, storeVars, match, wardrobeResult, conc>>

\* mutant: the total is overwritten with the image cost alone
AfterRenderImageCostOnly(r, rendered) ==
    IF rendered.none THEN Failed(r, 500)
    ELSE [r EXCEPT !.pc = "finish",
                   !.model_image = rendered.image,
                   !.cost = [r.cost EXCEPT !.model_image_cost = rendered.cost,
                                           !.total_cost = rendered.cost]]

\* mutant: the rate of the backend that failed before the fallback is added
AfterRenderSumsAttempts(r, rendered) ==
    IF rendered.none THEN Failed(r, 500)
    ELSE LET failed == IF Len(r.calls) = 2 THEN CallCost(r.calls[1].backend) ELSE 0
         IN [r EXCEPT !.pc = "finish",
                      !.model_image = rendered.image,
                      !.cost = [r.cost EXCEPT !.model_image_cost = rendered.cost + failed,
                                              !.total_cost = r.cost.gpt4_cost + rendered.cost + failed]]

\* lines 105-113 after _generate_model_image returned `rendered`:
\* model_image_base64, model_image_cost = <rendered> fails on None (TypeError,
\* caught by the handler's except Exception: 500)
AfterRender(r, rendered) ==
    IF rendered.none THEN Failed(r, 500)
    ELSE [r EXCEPT !.pc = "finish",
                   !.model_image = rendered.image,
                   !.cost = [r.cost EXCEPT !.model_image_cost = rendered.cost,
                                           !.total_cost = r.cost.gpt4_cost + rendered.cost]]

\* _generate_model_image, lines 191-216 and 230-239: the call to the requested
\* model ended as `o`, its clothing analysis as `a`
Rendered(r, o, a) ==
    LET r1 == [r EXCEPT !.calls = Append(@, [backend |-> Backend(r.model), outcome |-> o]),
                        !.steps = @ \o BackendSteps(r.model, o, a)]
    IN IF ~CallFailed(r.model, o, a)
       THEN AfterRender(r1, RenderPair(GeneratedImage(r.model), CallCost(r.model)))
       ELSE IF FallsBack(r.model, o) THEN [r1 EXCEPT !.pc = "fallback"]
       ELSE AfterRender(r1, RenderNone)

\* _generate_model_image, lines 191-216 and 230-239: the call to the requested model
RenderAttempt ==
    /\ req.pc = "render"
    /\ \E o \in CallOutcomes(req.model) : \E a \in AnalysisOutcomes(req.model, o) :
          req' = Rendered(req, o, a)
    /\ UNCHANGED <<parserVars, storeVars, match, wardrobeResult, conc>>

\* _generate_model_image, lines 217-229: the fallback call to DALL-E 3 ended as
\* `o`, its clothing analysis as `a`
FellBack(r, o, a) ==
    LET r1 == [r EXCEPT !.calls = Append(@, [backend |-> Backend("dalle3"), outcome |-> o]),
                        !.steps = @ \o BackendSteps("dalle3", o, a)]
    IN IF ~CallFailed("dalle3", o, a)
       THEN AfterRender(r1, RenderPair(GeneratedImage("dalle3"), CallCost("dalle3")))
       ELSE AfterRender(r1, RenderNone)

\* _generate_model_image, lines 217-229: the one fallback call to DALL-E 3
FallbackAttempt ==
    /\ req.pc = "fallback"
    /\ \E o \in CallOutcomes("dalle3") : \E a \in AnalysisOutcomes("dalle3", o) :
          req' = FellBack(req, o, a)
    /\ UNCHANGED <<parserVars, storeVars, match, wardrobeResult, conc>>

\* lines 148-152: the totals of the returned cost dict
FinalCost(cost_info) ==
    IF cost_info.total_cost = cost_info.gpt4_cost
    THEN [cost_info EXCEPT !.total_cost = cost_info.gpt4_cost + cost_info.model_image_cost]
    ELSE cost_info

\* mutant: the history row is written before the wardrobe is matched
FinishStepsSaveFirst(current_user) ==
    <<Step("save", "", TRUE, FALSE)>>
        \o (IF current_user # Anonymous THEN <<Step("match", "", TRUE, FALSE)>> ELSE <<>>)
        \o <<Step("totals", "", TRUE, FALSE)>>

\* lines 115-152 in program order: match_wardrobe_to_outfit (if current_user),
\* save_outfit_history, the cost totals
FinishSteps(current_user) ==
    (IF current_user # Anonymous THEN <<Step("match", "", TRUE, FALSE)>> ELSE <<>>)
        \o <<Step("save", "", TRUE, FALSE), Step("totals", "", TRUE, FALSE)>>

\* lines 115-162: the handler's locals when it returns
Finished(r) ==
    [r EXCEPT !.pc = "done", !.status = 200,
              !.matching = (r.user # Anonymous),
              !.cost = FinalCost(r.cost),
              !.steps = @ \o FinishSteps(r.user)]

\* lines 115-162: wardrobe matching, save_outfit_history, the cost totals, return
Finish ==
    /\ req.pc = "finish"
    /\ \E t \in Stamps :
          SaveOutfitHistory(req.user, req.image_base64, req.model_image, req.slots, t)
    /\ req' = Finished(req)
    /\ dupResult' = NoDupResult
    /\ UNCHANGED <<parserVars, wardrobe, threshold, match, wardrobeResult, conc>>

\* OutfitController.check_duplicate, lines 258-300
CheckDuplicate ==
    /\ req.pc = "idle"
    /\ \E u \in Users \cup {Anonymous}, up \in Uploads :
          LET r0 == [IdleRequest EXCEPT !.handler = "check_duplicate",
                                        !.user = u, !.upload = up]
          IN IF ~ValidateImage(up, MaxSizeMb)
             THEN req' = Failed(r0, 400) /\ dupResult' = NoDupResult
             ELSE IF ~up.img.ok                              \* Image.open raises
             THEN req' = Failed(r0, 500) /\ dupResult' = NoDupResult
             ELSE /\ req' = [r0 EXCEPT !.pc = "done", !.status = 200,
                                       !.image_base64 = EncodeImage(up.img)]
                  /\ ControllerCheckDuplicate(u, EncodeImage(up.img))
    /\ UNCHANGED <<parserVars, history, wardrobe, clock, threshold, match, wardrobeResult, conc>>

\* the response (the returned value or the HTTPException) leaves the handler
Deliver ==
    /\ req.pc \in {"done", "error"}
    /\ req' = IdleRequest
    /\ dupResult' = NoDupResult
    /\ UNCHANGED <<parserVars, history, wardrobe, clock, threshold, match, wardrobeResult, conc>>

Next ==
    \/ StartRequest \/ StartFromWardrobeItem \/ TextCall \/ RenderAttempt
    \/ FallbackAttempt \/ Finish \/ CheckDuplicate \/ Deliver

Spec == Init /\ [][Next]_vars

(***************************************************************************)
(* SpecConcurrent: two suggest_outfit requests served at the same time by  *)
(* the one OutfitController of get_outfit_controller. Each handler runs on *)
(* its own locals and its own database session; the steps of the two       *)
(* handlers interleave, and outfit_history is the table both write to.     *)
(***************************************************************************)
ConcIds == {1, 2}

\* one request as the outside determines it: the caller and the form fields sent,
\* and how the text call and the backend calls made for it end
ConcPlans ==
    { [user |-> u, upload |-> Upload(TRUE, 1024, ImgA), flag |-> f,
       image_model |-> "nano-banana", use_wardrobe_only |-> wo,
       text |-> t, content |-> GoodContent,
       gpt4_cost |-> CHOOSE g \in CalculateGpt4Cost(1001, 300, TRUE) : TRUE,
       first |-> o1, second |-> o2, analysis |-> "described"] :
      u \in {Anonymous, 1}, f \in {"on", "false"}, wo \in BOOLEAN,
      t \in {"raised", "returned"}, o1 \in {"ok", "http"}, o2 \in {"ok", "http"} }

\* the next step of suggest_outfit for the request with locals r, as its plan has it
Advance(r, plan) ==
    CASE r.pc = "idle" ->
            Started(plan.user, plan.upload, plan.flag, plan.image_model,
                    plan.use_wardrobe_only)
      [] r.pc = "text" ->
            IF plan.text = "raised" THEN TextRaised(r)
            ELSE TextReturned(r, plan.content, plan.gpt4_cost)
      [] r.pc = "render" -> Rendered(r, plan.first, plan.analysis)
      [] r.pc = "fallback" -> FellBack(r, plan.second, plan.analysis)
      [] r.pc = "finish" -> Finished(r)
      [] OTHER -> r

NoResponse == [status |-> 0]

\* raise HTTPException(status_code=...): the error response
ErrorResponse(r) == [status |-> r.status]

\* mutant: the response carries the id of the history row that was written
SuggestResponseWithEntryId(r, history_entry) ==
    [status |-> 200, slots |-> r.slots, model_image |-> r.model_image,
     matching |-> r.matching, cost |-> r.cost, history_id |-> history_entry.id]

\* lines 138-162: the OutfitSuggestion returned; the entry save_outfit_history
\* returns is not used
SuggestResponse(r, history_entry) ==
    [status |-> 200, slots |-> r.slots, model_image |-> r.model_image,
     matching |-> r.matching, cost |-> r.cost]

InitConcurrent ==
    /\ ParserIdle
    /\ history \in InitialHistories
    /\ wardrobe \in InitialWardrobes
    /\ clock = 0
    /\ dupResult = NoDupResult
    /\ threshold = DefaultThreshold
    /\ req = IdleRequest
    /\ match = MatchIdle
    /\ wardrobeResult = NoWardrobeResult
    /\ \E p1 \in ConcPlans, p2 \in ConcPlans :
          conc = [plans |-> <<p1, p2>>, reqs |-> <<IdleRequest, IdleRequest>>,
                  responses |-> <<NoResponse, NoResponse>>, history0 |-> history]

\* request i takes a step that comes before the history write
ConcBefore(i) ==
    LET r == Advance(conc.reqs[i], conc.plans[i])
    IN /\ conc' = [conc EXCEPT !.reqs[i] = r,
                               !.responses[i] = IF r.pc = "error" THEN ErrorResponse(r) ELSE @]
       /\ UNCHANGED <<parserVars, storeVars, req, match, wardrobeResult>>

\* request i validates and encodes its upload
ConcStart == \E i \in ConcIds : conc.reqs[i].pc = "idle" /\ ConcBefore(i)

\* the text call of request i ends
ConcTextCall == \E i \in ConcIds : conc.reqs[i].pc = "text" /\ ConcBefore(i)

\* the call to the backend request i selected ends
ConcRenderAttempt == \E i \in ConcIds : conc.reqs[i].pc = "render" /\ ConcBefore(i)

\* the fallback call of request i ends
ConcFallbackAttempt == \E i \in ConcIds : conc.reqs[i].pc = "fallback" /\ ConcBefore(i)

\* request i matches the wardrobe, writes its history row and returns
ConcFinish ==
    \E i \in ConcIds :
       LET r == conc.reqs[i]
       IN /\ r.pc = "finish"
          /\ \E t \in Stamps :
                SaveOutfitHistory(r.user, r.image_base64, r.model_image, r.slots, t)
          /\ conc' = [conc EXCEPT !.reqs[i] = Advance(r, conc.plans[i]),
                                  !.responses[i] =
                                      SuggestResponse(Advance(r, conc.plans[i]),
                                                      history'[Len(history')])]
          /\ dupResult' = NoDupResult
          /\ UNCHANGED <<parserVars, wardrobe, threshold, req, match, wardrobeResult>>

NextConcurrent ==
    \/ ConcStart \/ ConcTextCall \/ ConcRenderAttempt \/ ConcFallbackAttempt
    \/ ConcFinish

SpecConcurrent == InitConcurrent /\ [][NextConcurrent]_vars

(***************************************************************************)
(* Claims about the Image Generation Orchestrator and the costs (checked   *)
(* under Spec)                                                             *)
(***************************************************************************)
\* the render step of the current request, if it ran, has returned or raised
RenderOver == req.pc \in {"finish", "done", "error"}

\* every backend call the current request made has failed
AllCallsFailed ==
    /\ Len(req.calls) > 0
    /\ \A i \in 1..Len(req.calls) : req.calls[i].outcome # "ok"

\* C1: when the requested backend is stable-diffusion or nano-banana and its call
\* fails, dalle3 is called exactly one more time, whether or not that call
\* succeeds; when the requested backend is dalle3 and its call fails, no other
\* call is made.
C1_FallbackExactlyOnce ==
    (RenderOver /\ Len(req.calls) > 0 /\ req.calls[1].outcome # "ok") =>
        IF req.calls[1].backend \in {"stable-diffusion", "nano-banana"}
        THEN Len(req.calls) = 2 /\ req.calls[2].backend = "dalle3"
        ELSE Len(req.calls) = 1

\* C1 witness: nano-banana failed and the one fallback call to dalle3 succeeded
C1_Witness ==
    /\ req.pc = "finish"
    /\ Len(req.calls) = 2
    /\ req.calls[1] = [backend |-> "nano-banana", outcome |-> "http"]
    /\ req.calls[2] = [backend |-> "dalle3", outcome |-> "ok"]

\* C2 as stated: when the image was requested and every attempted backend failed,
\* the request does not end in an error response: it ends with status 200, the six
\* text slots, no model image and an image cost of 0.
C2_FailedRenderStillSucceeds ==
    (RenderOver /\ AllCallsFailed) =>
        /\ req.pc # "error"
        /\ req.model_image = NoImage
        /\ req.cost.model_image_cost = 0
        /\ (req.pc = "done" => req.status = 200 /\ req.slots # NoSlots)

\* C3: a request makes at most two image-generation backend calls, and none when
\* generate_model_image, lower-cased, is not one of true, 1, yes, on.
C3_AtMostTwoCalls ==
    /\ Len(req.calls) <= 2
    /\ (Lower(req.flag) \notin {"true", "1", "yes", "on"} => Len(req.calls) = 0)

\* C3 witness: two calls were made and both failed
C3_Witness ==
    /\ req.pc = "error"
    /\ Len(req.calls) = 2
    /\ AllCallsFailed

\* C4: with an image_model that is not dalle3, stable-diffusion or nano-banana
\* (or that was not sent), the first backend called is dalle3 and it stays the only
\* one: its failure is followed by no fallback.
C4_UnrecognizedSelectsPrimary ==
    (req.image_model \notin {"dalle3", "stable-diffusion", "nano-banana"}) =>
        /\ req.pc # "fallback"
        /\ Len(req.calls) <= 1
        /\ (Len(req.calls) = 1 => req.calls[1].backend = "dalle3")

\* C4 witness: image_model "midjourney", the one call went to dalle3 and failed
C4_Witness ==
    /\ req.image_model = "midjourney"
    /\ req.pc = "error"
    /\ req.calls = <<[backend |-> "dalle3", outcome |-> "http"]>>

\* C9: in the cost breakdown either handler returns, total_cost is
\* gpt4_cost + model_image_cost: without an image, with the image of the requested
\* backend and with the image of the fallback backend.
C9_TotalIsSum ==
    req.pc = "done" =>
        req.cost.total_cost = req.cost.gpt4_cost + req.cost.model_image_cost

\* C9 witness: suggest_outfit_from_wardrobe_item returned a breakdown whose image
\* cost is the fallback backend's
C9_Witness ==
    /\ req.pc = "done"
    /\ req.handler = "suggest_outfit_from_wardrobe_item"
    /\ Len(req.calls) = 2
    /\ req.calls[1].backend = "stable-diffusion"
    /\ req.cost.model_image_cost = Dalle3StandardCost
    /\ req.cost.gpt4_cost > Gpt4VisionImageCost

\* C19 as stated: the suggestion pipeline fails the whole request only when the
\* primary text-generation call fails or the caller's input is invalid; once the
\* text call has returned, any other failure (text that cannot be parsed, a failed
\* image generation on any backend) still ends in a successful response with the
\* six text slots.
C19_FailsOnlyOnTextOrInput ==
    req.text_call = "returned" =>
        /\ req.pc # "error"
        /\ (req.pc = "done" => req.status = 200 /\ req.slots # NoSlots)

\* suggest_outfit of an authenticated user has just returned
SuggestReturned ==
    req.pc = "done" /\ req.handler = "suggest_outfit" /\ req.user # Anonymous

\* check_duplicate of an authenticated user has just returned, and the newest row
\* of outfit_history was saved by a request of this user for the same image
CheckFollowsSuggest ==
    /\ req.pc = "done"
    /\ req.handler = "check_duplicate"
    /\ req.user # Anonymous
    /\ Len(history) > 0
    /\ history[Len(history)].slots # EarlierSlots
    /\ history[Len(history)].user_id = req.user
    /\ history[Len(history)].image_data = req.image_base64

\* the rows of the caller that match the image of the check_duplicate request
MatchingRows ==
    {i \in 1..Len(history) :
        /\ history[i].user_id = req.user
        /\ history[i].image_data # NoImage
        /\ ImagesAreSimilar(req.image_base64, history[i].image_data, threshold)}

\* the row suggest_outfit writes holds what it returns
SavedWhatWasReturned ==
    SuggestReturned =>
        /\ Len(history) > 0
        /\ history[Len(history)].user_id = req.user
        /\ history[Len(history)].image_data = req.image_base64
        /\ history[Len(history)].slots = req.slots

\* C13 as stated: after a successful suggest_outfit of an authenticated user, a
\* following check_duplicate by the same user with the same image reports a
\* duplicate whose six slot values are those of the suggestion returned.
C13_SameSuggestionFound ==
    /\ SavedWhatWasReturned
    /\ CheckFollowsSuggest =>
          /\ dupResult.id # 0
          /\ history[dupResult.id].slots = history[Len(history)].slots

\* C13 amended: the check reports a duplicate, the entry returned is a most recently
\* created one among the caller's matching entries, and it is the entry of that
\* suggestion (with its six slot values) when every other matching entry of the
\* caller has an earlier created_at.
C13_MostRecentSuggestionFound ==
    /\ SavedWhatWasReturned
    /\ CheckFollowsSuggest =>
          /\ dupResult.id \in MatchingRows
          /\ \A i \in MatchingRows :
                history[i].created_at <= history[dupResult.id].created_at
          /\ (\A i \in MatchingRows \ {Len(history)} :
                 history[i].created_at < history[Len(history)].created_at)
                => dupResult.id = Len(history)

\* C13 witness: an earlier entry for the same photo exists, the suggestion's entry
\* is newer, and the check returned the suggestion's entry
C13_Witness ==
    /\ CheckFollowsSuggest
    /\ Len(history) = 2
    /\ MatchingRows = {1, 2}
    /\ history[1].created_at < history[2].created_at
    /\ dupResult.id = 2
    /\ history[2].slots = TextOf

(***************************************************************************)
(* Claims about duplicate detection (checked under SpecDup)                *)
(***************************************************************************)
\* the table the last check_duplicate_image call scanned
ScannedTable == IF dupResult.op = "wardrobe" THEN wardrobe ELSE history

\* the caller's rows whose stored image is within the threshold of the new image
Acceptable ==
    {i \in 1..Len(ScannedTable) :
        /\ ScannedTable[i].user_id = dupResult.user_id
        /\ ScannedTable[i].image_data # NoImage
        /\ ImagesAreSimilar(dupResult.image, ScannedTable[i].image_data, threshold)}

\* C10: check_duplicate_image returns an entry of the caller that is within the
\* threshold and no acceptable entry of the caller is more recent than it (even
\* when an older one is closer); it returns None iff no entry is within the threshold.
C10_MostRecentAcceptable ==
    dupResult.op \in {"history", "wardrobe"} =>
        /\ dupResult.id = 0 <=> Acceptable = {}
        /\ dupResult.id # 0 =>
              /\ dupResult.id \in Acceptable
              /\ \A i \in Acceptable :
                    ScannedTable[i].created_at <= ScannedTable[dupResult.id].created_at

\* C10 witness: the newer entry, 2 bits away, is returned although an older entry
\* of the same caller is 0 bits away
C10_Witness ==
    /\ dupResult.op = "history"
    /\ dupResult.id = 2
    /\ dupResult.image = ImgA
    /\ Len(history) = 2
    /\ history[1].user_id = dupResult.user_id
    /\ history[1].image_data = ImgA
    /\ history[2].image_data = ImgA2
    /\ history[1].created_at < history[2].created_at

\* the caller's rows with an image that the last call scanned
Candidates ==
    {i \in 1..Len(ScannedTable) :
        /\ ScannedTable[i].user_id = dupResult.user_id
        /\ ScannedTable[i].image_data # NoImage}

\* one of the two images of the pair cannot be fingerprinted
FingerprintFails(image1, image2) == ~image1.ok \/ ~image2.ok

\* C11: a pair of which one image cannot be fingerprinted is compared by byte
\* equality and nothing else: such a candidate is returned only if its bytes are
\* the new image's, a byte-equal candidate is never missed (None is not returned),
\* and after a pair that is not byte-equal the scan goes on, so a later acceptable
\* candidate is still found.
C11_ByteEqualityFallback ==
    dupResult.op \in {"history", "wardrobe"} =>
        /\ (dupResult.id # 0
               /\ FingerprintFails(dupResult.image, ScannedTable[dupResult.id].image_data))
              => ScannedTable[dupResult.id].image_data.id = dupResult.image.id
        /\ (\E i \in Candidates :
                /\ FingerprintFails(dupResult.image, ScannedTable[i].image_data)
                /\ ScannedTable[i].image_data.id = dupResult.image.id)
              => dupResult.id # 0
        /\ (\E i \in Candidates :
                /\ ~FingerprintFails(dupResult.image, ScannedTable[i].image_data)
                /\ HammingDistance(dupResult.image.hash, ScannedTable[i].image_data.hash)
                      <= threshold)
              => dupResult.id # 0

\* C11 witness: the newest candidate cannot be opened, the scan went past it and
\* returned the older, decodable one
C11_Witness ==
    /\ dupResult.op = "history"
    /\ dupResult.image = ImgA
    /\ dupResult.id = 1
    /\ Len(history) = 2
    /\ history[2].user_id = dupResult.user_id
    /\ history[2].image_data = ImgX
    /\ history[1].created_at < history[2].created_at

\* C12: duplicate detection is reflexive: when the caller's scanned rows contain
\* the very payload that is looked up (decodable or not), a match is reported, at
\* every threshold >= 0.
C12_Reflexive ==
    dupResult.op \in {"history", "wardrobe"} =>
        ((\E i \in Candidates : ScannedTable[i].image_data = dupResult.image)
            => dupResult.id # 0)

\* C12 witness: at threshold 0 the payload that cannot be opened is found again
C12_Witness ==
    /\ threshold = 0
    /\ dupResult.op = "wardrobe"
    /\ dupResult.image = ImgX
    /\ dupResult.id # 0
    /\ wardrobe[dupResult.id].image_data = ImgX

\* C14 as stated: at threshold 0 a reported match is byte-identical to the new image.
C14_ByteIdenticalOnly ==
    (threshold = 0 /\ dupResult.op \in {"history", "wardrobe"} /\ dupResult.id # 0) =>
        ScannedTable[dupResult.id].image_data.id = dupResult.image.id

\* C14 amended: at threshold 0 a reported match has the same fingerprint as the new
\* image when both can be fingerprinted, and is byte-identical to it otherwise.
C14_FingerprintIdenticalOnly ==
    (threshold = 0 /\ dupResult.op \in {"history", "wardrobe"} /\ dupResult.id # 0) =>
        LET stored == ScannedTable[dupResult.id].image_data
        IN IF stored.ok /\ dupResult.image.ok
           THEN stored.hash = dupResult.image.hash
           ELSE stored.id = dupResult.image.id

\* C14 witness: at threshold 0 a payload with other bytes and the same fingerprint
\* is reported as the match
C14_Witness ==
    /\ threshold = 0
    /\ dupResult.op = "history"
    /\ dupResult.image = ImgA
    /\ dupResult.id # 0
    /\ history[dupResult.id].image_data = ImgA1

\* C15: check_duplicate for user U only ever returns a row owned by U, whatever
\* the other users and anonymous requests have stored, and for an anonymous caller
\* it reports no duplicate.
C15_CallerScoped ==
    /\ (dupResult.op = "history" /\ dupResult.id # 0) =>
          /\ dupResult.user_id # Anonymous
          /\ history[dupResult.id].user_id = dupResult.user_id
    /\ dupResult.op = "anonymous" => dupResult.id = 0

\* C15 witness: user 2 looks up a photo that user 1 and an anonymous request have
\* stored, and gets no duplicate
C15_Witness ==
    /\ dupResult.op = "history"
    /\ dupResult.user_id = 2
    /\ dupResult.image = ImgA
    /\ dupResult.id = 0
    /\ Len(history) = 2
    /\ history[1].user_id = 1
    /\ history[1].image_data = ImgA
    /\ history[2].user_id = Anonymous
    /\ history[2].image_data = ImgA

(***************************************************************************)
(* Claims about the Wardrobe Matcher (checked under SpecMatcher)           *)
(***************************************************************************)
\* the item at position i was put into the list of the slot of its category
Matched(i) ==
    \E k \in MatchKeys : i \in match.result[k]

\* the suggested text of the slot the item's category belongs to ("" for none)
SlotText(i) ==
    LET k == SlotOfCategory(LowerCategory(match.items[i].category))
    IN IF k \in MatchKeys THEN match.suggestion[k] ELSE <<>>

TanSpellings == {Color(<<"T", "a", "n">>), Color(<<"T", "A", "N">>)}

\* texts in which "tan" occurs, and only inside a longer word
TanInsideWordTexts ==
    {<<"T", "a", "n", "g", "e", "r", "i", "n", "e", " ", "p", "o", "l", "o">>,
     <<"S", "u", "n", "t", "a", "n">>}

\* C16 as stated: an item whose color is "Tan" is not matched to a slot whose text
\* contains "tan" only as part of a longer word.
C16_TanNotInTangerine ==
    match.pc = "matched" =>
        \A i \in 1..Len(match.items) :
            (match.items[i].color \in TanSpellings /\ SlotText(i) \in TanInsideWordTexts)
                => ~Matched(i)

NavyBlueSpellings ==
    {Color(<<"N", "a", "v", "y", " ", "B", "l", "u", "e">>),
     Color(<<"N", "A", "V", "Y", " ", "B", "L", "U", "E">>),
     Color(<<"n", "a", "v", "y", " ", "b", "l", "u", "e">>)}

\* texts that contain "navy" or "navy blue" in some letter case
NavyTexts ==
    {<<"N", "a", "v", "y", " ", "b", "l", "a", "z", "e", "r">>,
     <<"N", "A", "V", "Y", " ", "B", "L", "U", "E", " ", "s", "h", "i", "r", "t">>,
     <<"a", " ", "n", "a", "v", "y", " ", "b", "l", "u", "e", " ", "o", "n", "e">>}

\* C17: an item colored "Navy Blue", in any letter case, whose category belongs
\* to a slot, is matched to that slot when the slot's text contains "navy" or
\* "navy blue" in any letter case.
C17_NavyBlueMatches ==
    match.pc = "matched" =>
        \A i \in 1..Len(match.items) :
            LET k == SlotOfCategory(LowerCategory(match.items[i].category))
            IN (/\ match.items[i].color \in NavyBlueSpellings
                /\ k \in MatchKeys
                /\ match.suggestion[k] \in NavyTexts)
                   => i \in match.result[k]

\* C17 witness: a JACKET colored "NAVY BLUE" is matched to the blazer slot whose
\* text is "Navy blazer"
C17_Witness ==
    /\ match.pc = "matched"
    /\ Len(match.items) = 1
    /\ match.items[1].category = "JACKET"
    /\ match.items[1].color = Color(<<"N", "A", "V", "Y", " ", "B", "L", "U", "E">>)
    /\ match.suggestion["blazer"] = <<"N", "a", "v", "y", " ", "b", "l", "a", "z", "e", "r">>
    /\ match.result["blazer"] = {1}

\* colors that are absent, empty, whitespace only or "unknown" in some letter case
NoColorValues ==
    {NoColor, Color(<<>>), Color(<<" ", " ">>),
     Color(<<"u", "n", "k", "n", "o", "w", "n">>),
     Color(<<"U", "n", "k", "n", "o", "w", "n">>),
     Color(<<" ", "U", "N", "K", "N", "O", "W", "N", " ">>)}

\* C18: an item whose color is absent, empty, whitespace only or "unknown" (any
\* letter case) appears in no slot of the result, whatever the suggestion says.
C18_NoColorNeverMatches ==
    match.pc = "matched" =>
        \A i \in 1..Len(match.items) :
            match.items[i].color \in NoColorValues => ~Matched(i)

\* C18 witness: a shirt colored "Unknown" was matched against a shirt text that
\* contains the word "Unknown", and is in no slot
C18_Witness ==
    /\ match.pc = "matched"
    /\ Len(match.items) = 1
    /\ match.items[1].category = "shirt"
    /\ match.items[1].color = Color(<<"U", "n", "k", "n", "o", "w", "n">>)
    /\ match.suggestion["shirt"] =
          <<"U", "n", "k", "n", "o", "w", "n", " ", "l", "a", "b", "e", "l", " ", "t", "e", "e">>
    /\ match.result = NoMatches

(***************************************************************************)
(* Claims about the Suggestion Parser (checked under SpecParser)           *)
(***************************************************************************)
\* the places <<i, j>> of the well-formed objects embedded in a text that carry
\* all six keys with string values
EmbeddedSixKeyObjects(t) ==
    {ij \in (1..Len(t)) \X (1..Len(t)) :
        /\ ij[1] < ij[2]
        /\ t[ij[1]].k = "lb"
        /\ t[ij[2]].k = "rb"
        /\ LET r == JsonLoads(SubSeq(t, ij[1], ij[2]))
           IN /\ r.ok
              /\ Slots \subseteq DOMAIN r.d
              /\ \A k \in Slots : r.d[k].ty = "str"}

SixValuesAt(t, ij) ==
    LET r == JsonLoads(SubSeq(t, ij[1], ij[2]))
    IN [k \in Slots |-> r.d[k].s]

\* no "{" before place i and no "}" after place j
NoBraceAround(t, ij) ==
    /\ \A n \in 1..(ij[1] - 1) : t[n].k # "lb"
    /\ \A n \in (ij[2] + 1)..Len(t) : t[n].k # "rb"

\* C5 as stated: for every text that contains a well-formed object with the six
\* keys, whatever prose surrounds it, the parser returns exactly its six values.
C5_AnyProse ==
    (pcP = "parsed" /\ ~content.none) =>
        \A ij \in EmbeddedSixKeyObjects(content.toks) :
            parsed = ParseOk(SixValuesAt(content.toks, ij))

\* C5 amended: for every text that contains a well-formed object with the six keys
\* and string values, with no "{" in the prose before it and no "}" in the prose
\* after it, the parser returns exactly its six values, unchanged.
C5_ValuesUnchanged ==
    (pcP = "parsed" /\ ~content.none) =>
        \A ij \in EmbeddedSixKeyObjects(content.toks) :
            NoBraceAround(content.toks, ij) =>
                parsed = ParseOk(SixValuesAt(content.toks, ij))

\* C5 witness: an object between a prose word and a prose word has been parsed
\* into its own six values
C5_Witness ==
    /\ pcP = "parsed"
    /\ content.toks = <<WORD>> \o ObjectTokens(AllText) \o <<WORD>>
    /\ parsed = ParseOk(TextOf)

\* no "{", no "}", the last "}" before the first "{", or no JSON object from the
\* first "{" to the last "}"
NoParsableObject(t) ==
    LET lbs == {i \in 1..Len(t) : t[i].k = "lb"}
        rbs == {i \in 1..Len(t) : t[i].k = "rb"}
    IN \/ lbs = {}
       \/ rbs = {}
       \/ LET first == CHOOSE i \in lbs : \A j \in lbs : i <= j
              last == CHOOSE i \in rbs : \A j \in rbs : j <= i
          IN \/ last < first
             \/ ~JsonLoads(SubSeq(t, first, last)).ok

\* the fixed default suggestion, slot by slot in the order of SlotSeq
FixedDefaultTexts ==
    <<"Classic white dress shirt", "Dark navy dress trousers", "Charcoal gray blazer",
      "Black leather dress shoes", "Black leather belt",
      "A professional outfit suggestion based on your uploaded image.">>

\* C6: for every text with no parsable object the parser returns the same fixed
\* default suggestion, and parsing the same text again returns the identical result.
C6_DefaultIdempotent ==
    (pcP \in {"parsed", "reparsed"} /\ ~content.none /\ NoParsableObject(content.toks)) =>
        /\ parsed.status = "ok"
        /\ \A i \in 1..Len(SlotSeq) : parsed.slots[SlotSeq[i]] = FixedDefaultTexts[i]
        /\ pcP = "reparsed" => parsed = parsedPrev

\* C6 witness: a text with unbalanced braces was parsed twice into the default
C6_Witness ==
    /\ pcP = "reparsed"
    /\ content.toks = RemoveAt(ObjectTokens(AllText), Len(ObjectTokens(AllText)))
    /\ parsed.slots["reasoning"] = "A professional outfit suggestion based on your uploaded image."

\* C7 as stated: the parser never raises, whatever the upstream output.
C7_NeverRaises ==
    pcP = "parsed" => parsed.status = "ok"

\* C8 as stated: every suggestion the parser produces has six non-empty slots.
C8_SlotsNonEmpty ==
    (pcP = "parsed" /\ parsed.status = "ok") => \A k \in Slots : parsed.slots[k] # ""

(***************************************************************************)
(* Claims about the Wardrobe Inventory (checked under SpecWardrobe)        *)
(***************************************************************************)
\* the rows of the table owned by user_id
OwnedBy(table, user_id) == {table[i] : i \in UserRows(user_id)}

\* the operation that has just been answered named an item of another user
OnForeignItem(table, r) ==
    /\ r.op \in {"get", "update", "delete"}
    /\ \E i \in 1..Len(table) : table[i].id = r.item_id /\ table[i].user_id # r.user_id

\* the rows an answer holds
RowsReturned(r) ==
    {r.items[n] : n \in 1..Len(r.items)}
        \cup UNION {{r.by_categories[c][n] : n \in 1..Len(r.by_categories[c])} :
                        c \in CoreCategories}

\* one step of C20
OwnerIsolatedStep ==
    /\ OnForeignItem(wardrobe, wardrobeResult') =>
          /\ wardrobeResult'.status = 404
          /\ wardrobeResult'.items = <<>>
          /\ wardrobe' = wardrobe
    /\ wardrobeResult'.op \in {"get", "update", "list", "by_categories"} =>
          RowsReturned(wardrobeResult') \subseteq OwnedBy(wardrobe', wardrobeResult'.user_id)
    /\ wardrobeResult'.op = "list" =>
          wardrobeResult'.total_count <= Cardinality(UserRows(wardrobeResult'.user_id))
    /\ wardrobeResult'.op = "summary" =>
          LET own == OwnedBy(wardrobe, wardrobeResult'.user_id)
              summary == wardrobeResult'.summary
          IN /\ summary.total_items = Cardinality(own)
             /\ \A c \in StoredCategories :
                   summary.by_category[c] = Cardinality({row \in own : row.category = c})
             /\ \A c \in StoredColors :
                   summary.by_color[c] = Cardinality({row \in own : row.color = c})

\* C20: wardrobe items are owner-isolated. After any sequence of add, get, update
\* and delete operations by several users, a get, update or delete of an item by a
\* user who is not its owner is answered not-found and leaves the table as it was,
\* and every list, summary and by-category read for a user holds only rows (counts
\* only rows) that user owns.
C20_OwnerIsolated == [][OwnerIsolatedStep]_vars

\* C20 witness: user 2 asked to update an item that user 1 owns, was answered 404,
\* and user 1 also owns a second item
C20_Witness ==
    /\ wardrobeResult.op = "update"
    /\ wardrobeResult.user_id = 2
    /\ wardrobeResult.status = 404
    /\ \E i \in 1..Len(wardrobe) :
          wardrobe[i].id = wardrobeResult.item_id /\ wardrobe[i].user_id = 1
    /\ \E i \in 1..Len(wardrobe) : wardrobe[i].user_id = 2

(***************************************************************************)
(* Claims about the steps of one suggestion request (checked under Spec)   *)
(***************************************************************************)
\* the steps of the current request with one of these names
StepsNamed(names) == {n \in 1..Len(req.steps) : req.steps[n].step \in names}

\* C21: model_image is null unless generation was requested. When the generate
\* flag, lower-cased, is not one of true, 1, yes, on, the request invokes no image
\* backend and no clothing analysis, and what it returns has no model image and a
\* model_image_cost of 0.
C21_NoImageUnlessRequested ==
    (Lower(req.flag) \notin {"true", "1", "yes", "on"}) =>
        /\ StepsNamed({"analysis", "image"}) = {}
        /\ req.calls = <<>>
        /\ req.model_image = NoImage
        /\ req.cost.model_image_cost = 0

\* C21 witness: a request sent with the flag "maybe" has returned its suggestion
C21_Witness ==
    /\ req.pc = "done"
    /\ req.handler = "suggest_outfit"
    /\ req.flag = "maybe"
    /\ req.slots # NoSlots
    /\ StepsNamed({"text", "save"}) # {}

\* C22 as stated: matching_wardrobe_items is present in the returned suggestion only
\* when a garment collection was supplied: it is null for anonymous requests and for
\* requests whose caller owns no garment, and present otherwise.
C22_MatchingOnlyWithGarments ==
    req.pc = "done" /\ req.handler \in {"suggest_outfit", "suggest_outfit_from_wardrobe_item"} =>
        (req.matching <=> (req.user # Anonymous /\ HasAnyItem(req.user)))

\* C23 as stated: an owned-items mapping in which every category list is empty is
\* treated exactly like no owned items: on both entry points the prompt built for a
\* caller whose five category lists are all empty equals the prompt built with no
\* mapping (no wardrobe section, no owned-items-only constraint).
C23_EmptyMappingIsNoMapping ==
    (req.text_call # "none" /\ ~HasItems(req.user)) =>
        req.prompt = BuildPrompt(NoMapping, FALSE)

\* the request that has just been answered or started carried an upload whose
\* content type is not image/* or whose size is over the maximum
InvalidUpload(r) ==
    /\ r.handler \in {"suggest_outfit", "check_duplicate"}
    /\ (~r.upload.ctype_ok \/ r.upload.size > MaxSizeMb * BytesPerMb)

\* one step of C24
InvalidInputStep ==
    /\ InvalidUpload(req') =>
          /\ req'.pc = "error"
          /\ req'.status = 400
          /\ req'.steps = <<>>
          /\ req'.calls = <<>>
          /\ req'.text_call = "none"
          /\ history' = history
    /\ (req'.handler \in {"suggest_outfit", "check_duplicate"} /\ ~InvalidUpload(req')) =>
          req'.status # 400

\* C24: invalid caller input (content type not image/*, or a size strictly greater
\* than the maximum) is rejected at once with status 400: no text-generation,
\* analysis or image-generation call is made, nothing is retried and no history
\* entry is written; a size exactly at the maximum is accepted.
C24_InvalidInputRejected == [][InvalidInputStep]_vars

\* C24 witness: an upload one byte over the maximum was answered 400 while the
\* history table holds a row
C24_Witness ==
    /\ req.handler = "suggest_outfit"
    /\ req.upload.ctype_ok
    /\ req.upload.size = MaxSizeMb * BytesPerMb + 1
    /\ req.status = 400
    /\ Len(history) > 0

\* the phase of the pipeline a step belongs to
Phase(step) ==
    CASE step = "text" -> 1
      [] step \in {"analysis", "image"} -> 2
      [] step = "match" -> 3
      [] step = "save" -> 4
      [] OTHER -> 5

SlotsHolding(i) == {k \in DOMAIN match.result : i \in match.result[k]}

\* C26: match_wardrobe_to_outfit returns a mapping with exactly the five keys
\* shirt, trouser, blazer, shoes, belt (never reasoning). Every owned item appears
\* in at most one slot and only in the slot of its own category (jacket counts as
\* blazer, other categories appear nowhere), and whether it appears is decided by
\* that slot's suggested text alone, whatever the other slots say.
C26_FiveSlotsOwnCategory ==
    match.pc = "matched" =>
        /\ DOMAIN match.result = {"shirt", "trouser", "blazer", "shoes", "belt"}
        /\ \A i \in 1..Len(match.items) :
              LET category == LowerCategory(match.items[i].category)
                  own == IF category = "jacket" THEN "blazer" ELSE category
              IN /\ SlotsHolding(i) \subseteq {own}
                 /\ (own \notin DOMAIN match.result => SlotsHolding(i) = {})
                 /\ (own \in DOMAIN match.result =>
                        (SlotsHolding(i) = {own}
                            <=> MatchesSuggestion(match.items[i], match.suggestion[own])))

\* C26 witness: a tan pair of trousers is in the trouser list although the shirt,
\* blazer and belt texts name no tan
C26_Witness ==
    /\ match.pc = "matched"
    /\ Len(match.items) = 1
    /\ match.items[1].category = "trouser"
    /\ match.result["trouser"] = {1}
    /\ match.suggestion["shirt"] = <<"W", "h", "i", "t", "e", " ", "s", "h", "i", "r", "t">>

(***************************************************************************)
(* Further claims about the request pipeline (checked under Spec)          *)
(***************************************************************************)
\* the analyses of the current request that failed
FailedAnalyses == {n \in StepsNamed({"analysis"}) : ~req.steps[n].ok}

\* C27: a failure of the Clothing Analyzer never raises to its caller and never
\* prevents the backend attempt. On every backend, a failed analysis of the
\* uploaded image is followed by the attempt of that backend, made with a prompt
\* that holds no analyzer text.
C27_AnalysisFailureDegrades ==
    \A n \in FailedAnalyses :
        /\ n < Len(req.steps)
        /\ req.steps[n + 1].step = "image"
        /\ req.steps[n + 1].backend = req.steps[n].backend
        /\ ~req.steps[n + 1].details

\* C27 witness: the analysis failed for nano-banana and again for dalle3, both
\* attempts were still made, and dalle3 delivered the image
C27_Witness ==
    /\ req.pc = "finish"
    /\ Len(req.steps) = 5
    /\ req.steps[2] = Step("analysis", "nano-banana", FALSE, FALSE)
    /\ req.steps[3] = Step("image", "nano-banana", FALSE, FALSE)
    /\ req.steps[4] = Step("analysis", "dalle3", FALSE, FALSE)
    /\ req.steps[5] = Step("image", "dalle3", TRUE, FALSE)
    /\ req.model_image # NoImage

\* a non-Primary backend failed and the fallback call to the Primary succeeded
FallbackSucceeded ==
    /\ req.pc \in {"finish", "done"}
    /\ Len(req.calls) = 2
    /\ req.calls[1].backend \in {"stable-diffusion", "nano-banana"}
    /\ req.calls[1].outcome # "ok"
    /\ req.calls[2].backend = "dalle3"
    /\ req.calls[2].outcome = "ok"

\* the rate of the backend the first call of the request went to
FailedBackendRate ==
    IF req.calls[1].backend = "stable-diffusion" THEN StableDiffusionCost ELSE NanoBananaCost

\* C29: when a non-Primary backend fails and the Primary fallback succeeds, the
\* image cost of the request is the Primary's rate alone: it is not the failed
\* backend's rate and not the sum of both, and the total adds that rate only.
C29_FallbackCostIsPrimaryRate ==
    FallbackSucceeded =>
        /\ req.cost.model_image_cost = Dalle3StandardCost
        /\ req.cost.model_image_cost # FailedBackendRate
        /\ req.cost.model_image_cost # FailedBackendRate + Dalle3StandardCost
        /\ req.cost.total_cost = req.cost.gpt4_cost + Dalle3StandardCost

\* C29 witness: suggest_outfit returned after nano-banana failed and dalle3
\* delivered the image
C29_Witness ==
    /\ FallbackSucceeded
    /\ req.pc = "done"
    /\ req.handler = "suggest_outfit"
    /\ req.calls[1].backend = "nano-banana"
    /\ req.model_image = GeneratedImage("dalle3")

\* one step of a suggestion handler: it leaves outfit_history alone, unless it is
\* the step that returns 200, which appends one row: the caller's (user_id null
\* for an anonymous caller), with the six texts and the model image it returns
HistoryWrittenOnceStep ==
    LET returns == req.pc = "finish" /\ req'.pc = "done"
    IN /\ returns <=> history' # history
       /\ returns =>
            /\ req'.status = 200
            /\ Len(history') = Len(history) + 1
            /\ SubSeq(history', 1, Len(history)) = history
            /\ LET row == history'[Len(history')]
               IN /\ row.user_id = req'.user
                  /\ row.slots = req'.slots
                  /\ row.model_image = req'.model_image
                  /\ row.image_data = req'.image_base64
            /\ Cardinality({n \in 1..Len(req'.steps) : req'.steps[n].step = "save"}) = 1
       /\ req'.pc = "error" =>
            /\ history' = history
            /\ \A n \in 1..Len(req'.steps) : req'.steps[n].step # "save"

\* C30: a suggestion request writes to the history store exactly once, as its last
\* effect, and only when every earlier step succeeded: a request that ends in an
\* error response leaves the store unchanged, and a successful one adds exactly one
\* row owned by the caller (null for an anonymous caller) that holds the six slot
\* values and the model image it returns.
C30_HistoryWrittenOnce == [][HistoryWrittenOnceStep]_vars

\* C30 witness: an anonymous caller's request returned with a generated image and
\* the store's last row is unowned and holds that image; the store held a row before
C30_Witness ==
    /\ req.pc = "done"
    /\ req.handler = "suggest_outfit"
    /\ req.user = Anonymous
    /\ req.model_image # NoImage
    /\ Len(history) = 2
    /\ history[2].user_id = Anonymous
    /\ history[2].model_image = req.model_image
    /\ history[2].slots = req.slots

(***************************************************************************)
(* Claim about concurrent requests (checked under SpecConcurrent)          *)
(***************************************************************************)
RECURSIVE RunFrom(_, _)
\* the handler run from r to its response with no other request in flight
RunFrom(r, plan) ==
    IF r.pc \in {"done", "error"} THEN r ELSE RunFrom(Advance(r, plan), plan)

\* what the request of this plan is answered when it is served alone on the store
\* the two requests found
AloneResponse(plan) ==
    LET r == RunFrom(IdleRequest, plan)
    IN IF r.pc = "error" THEN ErrorResponse(r)
       ELSE SuggestResponse(r, HistoryEntry(Len(conc.history0) + 1, r.user, 0,
                                            r.image_base64, r.model_image, r.slots))

Responded(i) == conc.reqs[i].pc \in {"done", "error"}

\* row n of outfit_history is the row request i wrote
RowOf(n, i) ==
    /\ conc.reqs[i].pc = "done"
    /\ history[n].user_id = conc.reqs[i].user
    /\ history[n].image_data = conc.reqs[i].image_base64
    /\ history[n].model_image = conc.reqs[i].model_image
    /\ history[n].slots = conc.reqs[i].slots

\* C28: two concurrent suggestion requests are independent. Under every
\* interleaving of their steps each one is answered what it is answered when served
\* alone (suggestion, model image, matching, cost, or the error status), in
\* whichever order the two finish; and all they do to the shared state is that
\* each successful one appends its own row to outfit_history.
C28_RequestsIndependent ==
    /\ \A i \in ConcIds :
          Responded(i) => conc.responses[i] = AloneResponse(conc.plans[i])
    /\ Len(history) = Len(conc.history0)
                        + Cardinality({i \in ConcIds : conc.reqs[i].pc = "done"})
    /\ SubSeq(history, 1, Len(conc.history0)) = conc.history0
    /\ \A n \in (Len(conc.history0) + 1)..Len(history) : \E i \in ConcIds : RowOf(n, i)
    /\ \A i \in ConcIds : conc.reqs[i].pc = "done" =>
          \E n \in (Len(conc.history0) + 1)..Len(history) : RowOf(n, i)

\* C28 witness: both requests of user 1 returned; the second one, which asked for
\* no image, wrote its row before the first, whose image came from the fallback
C28_Witness ==
    /\ conc.reqs[1].pc = "done" /\ conc.reqs[2].pc = "done"
    /\ conc.reqs[1].user = 1 /\ conc.reqs[2].user = 1
    /\ Len(conc.reqs[1].calls) = 2
    /\ conc.reqs[2].model_image = NoImage
    /\ Len(history) = Len(conc.history0) + 2
    /\ RowOf(Len(history) - 1, 2)
    /\ RowOf(Len(history), 1)
    /\ conc.responses[1] = AloneResponse(conc.plans[1])
    /\ conc.responses[2] = AloneResponse(conc.plans[2])

====
